---------------------------- MODULE Spec2Model ----------------------------
(***************************************************************************)
(* WaveClip display caches (WaveClip.cpp): the waveform cache with its     *)
(* invalid-region tracker, the correction engine (findCorrection,          *)
(* fillWhere), GetWaveDisplay / GetSpectrogram reconciliation and the      *)
(* clip's dirty counter.                                                   *)
(*                                                                         *)
(* Arithmetic.  The code computes sample positions in double precision.    *)
(* Here every time is an integer number of 1/Den seconds and every sample  *)
(* position an integer number of 1/Den samples, so that t0 * rate and      *)
(* samplesPerPixel = rate * tstep are exact; floor() and the truncating    *)
(* conversion to long are computed as the code computes them.  A cache's   *)
(* pps is stored as tstep = 1/pps (in 1/Den seconds); tstep = 0 stands for *)
(* pps == 0, the value of the default-constructed cache.                   *)
(***************************************************************************)
EXTENDS Integers, Sequences, FiniteSets, TLC

VARIABLES
    mDirty,            \* WaveClip::mDirty
    mRate,             \* WaveClip::mRate
    numSamples,        \* mSequence->GetNumSamples()
    mAppendBufferLen,  \* WaveClip::mAppendBufferLen
    mOffset,           \* WaveClip::mOffset, in 1/Den seconds
    odSamples,         \* samples of the Sequence whose block is not decoded yet
    mWaveCache,        \* WaveClip::mWaveCache (the object pointed to)
    mWaveCacheMutex,   \* holder of WaveClip::mWaveCacheMutex
    rt,                \* GetWaveDisplay: position and locals of the rendering thread
    mSpecCache,        \* WaveClip::mSpecCache (the object pointed to)
    sp                 \* GetSpectrogram: what the last call did

vars == <<mDirty, mRate, numSamples, mAppendBufferLen, mOffset, odSamples,
          mWaveCache, mWaveCacheMutex, rt, mSpecCache, sp>>

(***************************************************************************)
(* Bounds of the model.                                                    *)
(***************************************************************************)
\* the denominator of the fixed-point arithmetic: even, so that 0.5 is exact
Den == 2 * 2
MaxPixels == 3
MaxT0 == 5
MaxSamples == 4
MaxDirty == 2
MaxInvalLen == 2
RegionLen == 7
RegionSamples == 9

(***************************************************************************)
(* Arithmetic helpers.                                                     *)
(***************************************************************************)
Abs(x) == IF x < 0 THEN -x ELSE x

Max(a, b) == IF a >= b THEN a ELSE b

Min(a, b) == IF a <= b THEN a ELSE b

\* floor(a / b) for b > 0
Floor(a, b) == a \div b

\* the conversion of the double a / b to long: truncation toward zero (b > 0)
Trunc(a, b) == IF a >= 0 THEN a \div b ELSE -((-a) \div b)

\* samplesPerPixel = mRate * tstep, in 1/Den samples
SamplesPerPixel(rate, tstep) == rate * tstep

(***************************************************************************)
(* The cache's columns.  min, max and rms of a column are abstracted to    *)
(* the sample range <<lo, hi>> they were computed over; NoData is the      *)
(* value of a column of the zero-initialised vectors.  Three fields of the *)
(* cache record are history, not members of WaveCache: corr, the           *)
(* correction its where was filled with; inval, the columns whose sample   *)
(* range met an AddInvalidRegion since the regions were last cleared; and  *)
(* asked, the columns handed to the Sequence during the running call.      *)
(***************************************************************************)
NoData == <<-1, -1>>

CountODPixels(bl, start, end) ==
    Cardinality({x \in start .. end - 1 : bl[x + 1] < 0})

\* WaveCache(): the default-constructed cache
DefaultWaveCache ==
    [dirty |-> -1, len |-> -1, start |-> -Den, tstep |-> 0, rate |-> -1,
     where |-> <<>>, sum |-> <<>>, bl |-> <<>>, numODPixels |-> 0,
     mRegions |-> <<>>, mRegionsMutex |-> "free",
     corr |-> 0, inval |-> {}, asked |-> {}]

\* fillWhere: where[x] of the code is where[x + 1] here
\* a fillWhere that does not force the first value to be non-negative, to
\* compare fillWhere with
fillWhereUnclamped(len, bias, correction, t0, rate, samplesPerPixel) ==
    LET w0 == (Den \div 2) + correction + bias + t0 * rate
    IN  [x \in 1 .. len + 1 |-> Floor(w0 + (x - 1) * samplesPerPixel, Den)]

fillWhere(len, bias, correction, t0, rate, samplesPerPixel) ==
    LET w0 == (Den \div 2) + correction + bias + t0 * rate
    IN  [x \in 1 .. len + 1 |->
            IF x = 1 THEN Max(0, Floor(w0, Den))
                     ELSE Floor(w0 + (x - 1) * samplesPerPixel, Den)]

\* WaveCache(len, pixelsPerSecond, rate, t0, dirty): zeroed vectors
NewWaveCache(len, tstep, rate, t0, dirty) ==
    LET zbl == [x \in 1 .. len |-> 0]
    IN  [dirty |-> dirty, len |-> len, start |-> t0, tstep |-> tstep,
         rate |-> rate,
         where |-> [x \in 1 .. len + 1 |-> 0],
         sum |-> [x \in 1 .. len |-> NoData],
         bl |-> zbl,
         numODPixels |-> CountODPixels(zbl, 0, len),
         mRegions |-> <<>>, mRegionsMutex |-> "free",
         corr |-> 0, inval |-> {}, asked |-> {}]

(***************************************************************************)
(* WaveCache::AddInvalidRegion.                                            *)
(***************************************************************************)
Region(s, e) == [start |-> s, end |-> e]

\* a test that also takes regions one free pixel away, to compare Touching
\* with
TouchingAcrossGap(r, s, e) == r.start <= e + 2 /\ r.end >= s - 2

Touching(r, s, e) == r.start <= e + 1 /\ r.end >= s - 1

Union(r, s, e) == Region(Min(r.start, s), Max(r.end, e))

RemoveAt(seq, i) == [k \in 1 .. Len(seq) - 1 |-> IF k < i THEN seq[k] ELSE seq[k + 1]]

\* the pixel range of a sample range, before clipping
InvalStart(c, sampleStart) ==
    Trunc(sampleStart * Den - c.start * c.rate, SamplesPerPixel(c.rate, c.tstep))

InvalEnd(c, sampleEnd) ==
    Trunc(sampleEnd * Den - c.start * c.rate + SamplesPerPixel(c.rate, c.tstep),
          SamplesPerPixel(c.rate, c.tstep))

\* an off-cache test that looks past the end only, to compare OffCache with
OffCacheAbove(c, invalStart, invalEnd) ==
    invalStart >= c.len /\ invalEnd >= c.len

\* both ends off the cache on the same side: not tracked
OffCache(c, invalStart, invalEnd) ==
    \/ invalStart < 0 /\ invalEnd < 0
    \/ invalStart >= c.len /\ invalEnd >= c.len

\* no clipping at all, to compare ClipToCache with
ClipNothing(c, x) == x

ClipToCache(c, x) == IF x < 0 THEN 0 ELSE IF x > c.len THEN c.len ELSE x

\* first loop: union into the first region that touches, else insert in front
InsertRegion(regs, s, e) ==
    LET hits == {i \in 1 .. Len(regs) : Touching(regs[i], s, e)}
    IN  IF hits = {}
        THEN <<Region(s, e)>> \o regs
        ELSE LET i == CHOOSE k \in hits : \A j \in hits : k <= j
             IN  [regs EXCEPT ![i] = Union(regs[i], s, e)]

\* second loop, from index i (1-based; the code's i is i - 1).  After an
\* erase the code tests region.start through a reference the erase has
\* invalidated: both outcomes of that test are kept.
RECURSIVE PatchRegions(_, _, _)
PatchRegions(regs, i, invalEnd) ==
    IF i > Len(regs) THEN {regs}
    ELSE LET region == regs[i]
             prev == regs[i - 1]
         IN  IF Touching(region, prev.start, prev.end)
             THEN LET merged == Union(region, prev.start, prev.end)
                      erased == RemoveAt([regs EXCEPT ![i] = merged], i - 1)
                  IN  {erased} \cup PatchRegions(erased, i, invalEnd)
             ELSE IF region.start > invalEnd
                  THEN {regs}
                  ELSE PatchRegions(regs, i + 1, invalEnd)

\* the region lists the call can leave
\* an AddInvalidRegion without the return on pps == 0, which tracks column 0
\* of a cache without a pitch, to compare WaveCache_AddInvalidRegion with
WaveCache_AddInvalidRegionAnyPps(c, sampleStart, sampleEnd) ==
    IF c.tstep = 0 THEN {<<[start |-> 0, end |-> 0]>>}
    ELSE LET is == InvalStart(c, sampleStart)
             ie == InvalEnd(c, sampleEnd)
         IN  IF OffCache(c, is, ie) THEN {c.mRegions}
             ELSE PatchRegions(InsertRegion(c.mRegions, ClipToCache(c, is),
                                            ClipToCache(c, ie)),
                               2, ClipToCache(c, ie))

WaveCache_AddInvalidRegion(c, sampleStart, sampleEnd) ==
    IF c.tstep = 0 THEN {c.mRegions}
    ELSE LET is == InvalStart(c, sampleStart)
             ie == InvalEnd(c, sampleEnd)
         IN  IF OffCache(c, is, ie) THEN {c.mRegions}
             ELSE PatchRegions(InsertRegion(c.mRegions, ClipToCache(c, is),
                                            ClipToCache(c, ie)),
                               2, ClipToCache(c, ie))


\* WaveCache::ClearInvalidRegions
ClearInvalidRegions(c) == [c EXCEPT !.mRegions = <<>>, !.inval = {}]

(***************************************************************************)
(* Sequence::GetWaveDisplay, the summarizer of the Sample Sequence: for    *)
(* each of n columns from column first, min/max/rms over                   *)
(* [where[x], where[x+1]) and the flag, negative while a block of the      *)
(* range is still being decoded.  A failed call leaves the arrays alone.   *)
(***************************************************************************)
SeqFlag(od, lo, hi) == IF \E s \in lo .. hi - 1 : s \in od THEN -1 ELSE 0

Sequence_GetWaveDisplay(c, od, first, n, ok) ==
    IF n <= 0 THEN c
    ELSE IF ~ok THEN [c EXCEPT !.asked = c.asked \cup (first .. first + n - 1)]
    ELSE [c EXCEPT
            !.asked = c.asked \cup (first .. first + n - 1),
            !.sum = [x \in 1 .. Len(c.sum) |->
                        IF x - 1 >= first /\ x - 1 < first + n
                        THEN <<c.where[x], c.where[x + 1]>> ELSE c.sum[x]],
            !.bl = [x \in 1 .. Len(c.bl) |->
                        IF x - 1 >= first /\ x - 1 < first + n
                        THEN SeqFlag(od, c.where[x], c.where[x + 1]) ELSE c.bl[x]]]

\* a LoadInvalidRegion that reloads every column of the cache, to compare
\* LoadInvalidRegion with
LoadWholeCache(c, ii, od, ok, updateODCount) ==
    Sequence_GetWaveDisplay(c, od, 0, c.len, ok)

\* WaveCache::LoadInvalidRegion(ii, sequence, updateODCount); the result of
\* the Sequence call is not looked at
LoadInvalidRegion(c, ii, od, ok, updateODCount) ==
    LET invStart == c.mRegions[ii].start
        invEnd == c.mRegions[ii].end
        regionODPixels == IF updateODCount THEN CountODPixels(c.bl, invStart, invEnd) ELSE 0
        loaded == Sequence_GetWaveDisplay(c, od, invStart, invEnd - invStart, ok)
    IN  IF updateODCount
        THEN [loaded EXCEPT !.numODPixels =
                 c.numODPixels - (regionODPixels - CountODPixels(loaded.bl, invStart, invEnd))]
        ELSE loaded

\* a drain that loads nothing, to compare LoadInvalidRegions with
LoadNoRegion(c, od, fails, updateODCount) == c

\* WaveCache::LoadInvalidRegions: every region in turn, from region ii on;
\* fails is the set of regions whose Sequence call fails
RECURSIVE LoadInvalidRegionsFrom(_, _, _, _, _)
LoadInvalidRegionsFrom(c, ii, od, fails, updateODCount) ==
    IF ii > Len(c.mRegions) THEN c
    ELSE LoadInvalidRegionsFrom(LoadInvalidRegion(c, ii, od, ii \notin fails, updateODCount),
                                ii + 1, od, fails, updateODCount)

LoadInvalidRegions(c, od, fails, updateODCount) ==
    LoadInvalidRegionsFrom(c, 1, od, fails, updateODCount)

\* the columns of a list of regions
RegionColumns(regs) ==
    UNION {regs[i].start .. regs[i].end - 1 : i \in 1 .. Len(regs)}

(***************************************************************************)
(* findCorrection.  Positions are in 1/Den samples; oldWhere[1] of the     *)
(* code is oldWhere[2] here.                                               *)
(***************************************************************************)
\* a findCorrection whose correction has the opposite sign, to compare
\* findCorrection with
findCorrectionReversed(oldWhere, oldLen, newLen, t0, rate, samplesPerPixel) ==
    LET oldWhere0 == oldWhere[2] * Den - samplesPerPixel
        oldWhereLast == oldWhere0 + oldLen * samplesPerPixel
        denom == oldWhereLast - oldWhere0
        guessWhere0 == t0 * rate
    IN  IF \/ oldWhereLast <= guessWhere0
           \/ guessWhere0 + newLen * samplesPerPixel <= oldWhere0
           \/ 2 * denom < Den
        THEN [oldX0 |-> oldLen, correction |-> 0, correction0 |-> 0]
        ELSE LET oldX0 == Floor(denom + 2 * oldLen * (guessWhere0 - oldWhere0), 2 * denom)
                 where0 == oldWhere0 + oldX0 * samplesPerPixel
                 correction0 == guessWhere0 - where0
             IN  [oldX0 |-> oldX0,
                  correction |-> Max(-samplesPerPixel, Min(samplesPerPixel, correction0)),
                  correction0 |-> correction0]

\* a findCorrection that keeps the column offset inside the old cache, to
\* compare findCorrection with
findCorrectionInBounds(oldWhere, oldLen, newLen, t0, rate, samplesPerPixel) ==
    LET oldWhere0 == oldWhere[2] * Den - samplesPerPixel
        oldWhereLast == oldWhere0 + oldLen * samplesPerPixel
        denom == oldWhereLast - oldWhere0
        guessWhere0 == t0 * rate
    IN  IF \/ oldWhereLast <= guessWhere0
           \/ guessWhere0 + newLen * samplesPerPixel <= oldWhere0
           \/ 2 * denom < Den
        THEN [oldX0 |-> oldLen, correction |-> 0, correction0 |-> 0]
        ELSE LET oldX0 == Max(0, Min(oldLen - 1,
                              Floor(denom + 2 * oldLen * (guessWhere0 - oldWhere0),
                                    2 * denom)))
                 where0 == oldWhere0 + oldX0 * samplesPerPixel
                 correction0 == where0 - guessWhere0
             IN  [oldX0 |-> oldX0,
                  correction |-> Max(-samplesPerPixel, Min(samplesPerPixel, correction0)),
                  correction0 |-> correction0]

\* a correction whose column offset is rounded up rather than to the nearest
\* column, to compare findCorrection with
findCorrectionRoundedUp(oldWhere, oldLen, newLen, t0, rate, samplesPerPixel) ==
    LET oldWhere0 == oldWhere[2] * Den - samplesPerPixel
        oldWhereLast == oldWhere0 + oldLen * samplesPerPixel
        denom == oldWhereLast - oldWhere0
        guessWhere0 == t0 * rate
    IN  IF \/ oldWhereLast <= guessWhere0
           \/ guessWhere0 + newLen * samplesPerPixel <= oldWhere0
           \/ 2 * denom < Den
        THEN [oldX0 |-> oldLen, correction |-> 0, correction0 |-> 0]
        ELSE LET oldX0 == -Floor(-(oldLen * (guessWhere0 - oldWhere0)), denom)
                 where0 == oldWhere0 + oldX0 * samplesPerPixel
                 correction0 == where0 - guessWhere0
             IN  [oldX0 |-> oldX0,
                  correction |-> Max(-samplesPerPixel, Min(samplesPerPixel, correction0)),
                  correction0 |-> correction0]

\* a correction that answers the degenerate case with column 0 rather than
\* with oldLen, to compare findCorrection with
findCorrectionFromZero(oldWhere, oldLen, newLen, t0, rate, samplesPerPixel) ==
    LET oldWhere0 == oldWhere[2] * Den - samplesPerPixel
        oldWhereLast == oldWhere0 + oldLen * samplesPerPixel
        denom == oldWhereLast - oldWhere0
        guessWhere0 == t0 * rate
    IN  IF \/ oldWhereLast <= guessWhere0
           \/ guessWhere0 + newLen * samplesPerPixel <= oldWhere0
           \/ 2 * denom < Den
        THEN [oldX0 |-> 0, correction |-> 0, correction0 |-> 0]
        ELSE LET oldX0 == Floor(denom + 2 * oldLen * (guessWhere0 - oldWhere0), 2 * denom)
                 where0 == oldWhere0 + oldX0 * samplesPerPixel
                 correction0 == where0 - guessWhere0
             IN  [oldX0 |-> oldX0,
                  correction |-> Max(-samplesPerPixel, Min(samplesPerPixel, correction0)),
                  correction0 |-> correction0]

findCorrection(oldWhere, oldLen, newLen, t0, rate, samplesPerPixel) ==
    LET oldWhere0 == oldWhere[2] * Den - samplesPerPixel
        oldWhereLast == oldWhere0 + oldLen * samplesPerPixel
        denom == oldWhereLast - oldWhere0
        guessWhere0 == t0 * rate
    IN  IF \/ oldWhereLast <= guessWhere0
           \/ guessWhere0 + newLen * samplesPerPixel <= oldWhere0
           \/ 2 * denom < Den
        THEN [oldX0 |-> oldLen, correction |-> 0, correction0 |-> 0]
        ELSE LET \* floor(0.5 + oldLen * (guessWhere0 - oldWhere0) / denom)
                 oldX0 == Floor(denom + 2 * oldLen * (guessWhere0 - oldWhere0), 2 * denom)
                 where0 == oldWhere0 + oldX0 * samplesPerPixel
                 correction0 == where0 - guessWhere0
             IN  [oldX0 |-> oldX0,
                  correction |-> Max(-samplesPerPixel, Min(samplesPerPixel, correction0)),
                  correction0 |-> correction0]

\* lines 446-456: the sample positions findCorrection compares, in 1/Den
\* samples
OldWhere0(c, samplesPerPixel) == c.where[2] * Den - samplesPerPixel

OldWhereLast(c, samplesPerPixel) ==
    OldWhere0(c, samplesPerPixel) + c.len * samplesPerPixel

\* lines 458-463: the old and the new sample ranges are disjoint, or the
\* sample length of the old cache is below 0.5
Degenerate(c, numPixels, t0, rate, samplesPerPixel) ==
    \/ OldWhereLast(c, samplesPerPixel) <= t0 * rate
    \/ t0 * rate + numPixels * samplesPerPixel <= OldWhere0(c, samplesPerPixel)
    \/ 2 * c.len * samplesPerPixel < Den

(***************************************************************************)
(* WaveClip::GetWaveDisplay, the cached path (display.where == 0).         *)
(***************************************************************************)
\* the tolerant comparison of the pps values
PpsMatch(c, tstep, numPixels, rate) ==
    /\ c.tstep # 0
    /\ Abs(tstep - c.tstep) * numPixels * rate < Den

\* a match that does not look at dirty, to compare Match with
MatchAnyDirty(c, tstep, numPixels, rate, dirty) ==
    /\ c.tstep # 0
    /\ Abs(tstep - c.tstep) * numPixels * rate < Den
    /\ c.len > 0

Match(c, tstep, numPixels, rate, dirty) ==
    /\ PpsMatch(c, tstep, numPixels, rate)
    /\ c.len > 0
    /\ c.dirty = dirty

\* a full hit that does not look at start, to compare FullHit with
FullHitAnyStart(c, numPixels, t0, tstep, rate, dirty) ==
    /\ Match(c, tstep, numPixels, rate, dirty)
    /\ c.len >= numPixels

FullHit(c, numPixels, t0, tstep, rate, dirty) ==
    /\ Match(c, tstep, numPixels, rate, dirty)
    /\ c.start = t0
    /\ c.len >= numPixels

CopyBegin(numPixels, oldX0) == Min(numPixels, Max(0, -oldX0))

\* a copy range whose end is not limited to the request, to compare CopyEnd
\* with
CopyEndUnclamped(numPixels, oldLen, oldX0) ==
    CopyBegin(numPixels, oldX0) + oldLen - Max(0, oldX0)

CopyEnd(numPixels, oldLen, oldX0) ==
    Min(numPixels, CopyBegin(numPixels, oldX0) + oldLen - Max(0, oldX0))

\* a fetch range that always starts behind the copied columns, to compare
\* FetchBegin with
FetchBeginAfterCopy(copyBegin, copyEnd) == copyEnd

\* lines 595-596: the range [p0, p1) of columns to fetch from the Sequence
FetchBegin(copyBegin, copyEnd) == IF copyBegin > 0 THEN 0 ELSE copyEnd

FetchEnd(copyBegin, copyEnd, numPixels) ==
    IF copyEnd >= numPixels THEN copyBegin ELSE numPixels

\* memcpy of min, max, rms and bl for new columns [copyBegin, copyEnd)
CopyColumns(new, old, copyBegin, copyEnd, oldX0) ==
    [new EXCEPT
        !.sum = [x \in 1 .. Len(new.sum) |->
                    IF x - 1 >= copyBegin /\ x - 1 < copyEnd
                    THEN old.sum[x + oldX0] ELSE new.sum[x]],
        !.bl = [x \in 1 .. Len(new.bl) |->
                    IF x - 1 >= copyBegin /\ x - 1 < copyEnd
                    THEN old.bl[x + oldX0] ELSE new.bl[x]]]

\* no cache object (a null unique_ptr)
NoCache == [DefaultWaveCache EXCEPT !.len = -2]

\* the view of the cache a rebuild matched (none: len = -1)
NoView == [len |-> -1, start |-> 0, tstep |-> 0, corr |-> 0]

ViewOf(c) == [len |-> c.len, start |-> c.start, tstep |-> c.tstep, corr |-> c.corr]

RtIdle ==
    [pc |-> "idle", numPixels |-> 0, t0 |-> 0, tstep |-> 0, found |-> NoView,
     p0 |-> 0, p1 |-> 0, copyBegin |-> 0, copyEnd |-> 0, oldX0 |-> 0,
     correction |-> 0, oldCache |-> NoCache,
     mode |-> "none", ret |-> "none", isLoadingOD |-> FALSE,
     stale |-> FALSE, sameView |-> FALSE, srcRegs |-> <<>>, loaded |-> {},
     needed |-> {}, left |-> <<>>, seqFailed |-> FALSE, deleted |-> FALSE,
     afterDelete |-> FALSE, firstAfterDelete |-> FALSE, discarded |-> FALSE]

\* the return of GetWaveDisplay: the locals are gone, what the call was asked
\* and what it did is kept
RtReturn(r, ret, isLoadingOD) ==
    [RtIdle EXCEPT !.numPixels = r.numPixels, !.t0 = r.t0, !.tstep = r.tstep,
                   !.mode = r.mode, !.stale = r.stale, !.sameView = r.sameView,
                   !.left = r.left, !.seqFailed = r.seqFailed,
                   !.afterDelete = r.afterDelete,
                   !.discarded = (r.afterDelete /\ r.discarded),
                   !.ret = ret, !.isLoadingOD = isLoadingOD]

\* the view parameters of c are those of the query, up to the tolerance
SameView(c, numPixels, t0, tstep, rate) ==
    /\ PpsMatch(c, tstep, numPixels, rate)
    /\ c.len > 0
    /\ c.start = t0
    /\ c.len >= numPixels

\* the regions of a list that have a column to load
LoadableRegions(regs) == {i \in 1 .. Len(regs) : regs[i].end > regs[i].start}

\* the columns of c whose sample range [where[x], where[x+1]) meets the
\* samples sampleStart .. sampleEnd
InvalColumns(c, sampleStart, sampleEnd) ==
    {x \in 0 .. c.len - 1 :
        \E smp \in sampleStart .. sampleEnd :
            c.where[x + 1] <= smp /\ smp < c.where[x + 2]}

\* lines 530-561: lock, compare, and on a full hit load the invalid regions
GetWaveDisplayHitBegin(numPixels, t0, tstep, fails) ==
    /\ rt.pc = "idle"
    /\ mWaveCacheMutex = "free"
    /\ FullHit(mWaveCache, numPixels, t0, tstep, mRate, mDirty)
    /\ fails \subseteq LoadableRegions(mWaveCache.mRegions)
    /\ mWaveCacheMutex' = "render"
    /\ LET drained == LoadInvalidRegions(mWaveCache, odSamples, fails, TRUE)
       IN  /\ mWaveCache' = [drained EXCEPT !.asked = {}]
           /\ rt' = [RtIdle EXCEPT
                        !.pc = "hitdrain", !.numPixels = numPixels,
                        !.t0 = t0, !.tstep = tstep, !.mode = "hit",
                        !.firstAfterDelete = rt.afterDelete,
                        !.discarded = rt.discarded,
                        !.stale = (mWaveCache.dirty # mDirty),
                        !.sameView = SameView(mWaveCache, numPixels, t0, tstep, mRate),
                        !.srcRegs = mWaveCache.mRegions,
                        !.loaded = drained.asked,
                        !.needed = mWaveCache.inval,
                        !.seqFailed = (fails # {})]
    /\ UNCHANGED <<mDirty, mRate, numSamples, mAppendBufferLen, mOffset, odSamples,
                   mSpecCache, sp>>

\* lines 551-560: clear the regions and hand out the cache's arrays
GetWaveDisplayHitEnd ==
    /\ rt.pc = "hitdrain"
    /\ mWaveCache' = ClearInvalidRegions(mWaveCache)
    /\ rt' = [RtReturn(rt, "true", mWaveCache.numODPixels > 0) EXCEPT
                 !.left = ClearInvalidRegions(mWaveCache).mRegions]
    /\ mWaveCacheMutex' = "free"
    /\ UNCHANGED <<mDirty, mRate, numSamples, mAppendBufferLen, mOffset, odSamples,
                   mSpecCache, sp>>

\* lines 563-607: not a full hit.  The old cache is taken, the new cache is
\* made and published, its where is filled, and the regions of an old cache
\* that will be copied from are loaded.
GetWaveDisplayRebuild(numPixels, t0, tstep, fails) ==
    /\ rt.pc = "idle"
    /\ mWaveCacheMutex = "free"
    /\ ~FullHit(mWaveCache, numPixels, t0, tstep, mRate, mDirty)
    /\ LET samplesPerPixel == SamplesPerPixel(mRate, tstep)
           match == Match(mWaveCache, tstep, numPixels, mRate, mDirty)
           fc == IF match
                 THEN findCorrection(mWaveCache.where, mWaveCache.len, numPixels,
                                     t0, mRate, samplesPerPixel)
                 ELSE [oldX0 |-> 0, correction |-> 0]
           copyBegin == IF match THEN CopyBegin(numPixels, fc.oldX0) ELSE 0
           copyEnd == IF match THEN CopyEnd(numPixels, mWaveCache.len, fc.oldX0) ELSE 0
           keepOld == copyEnd > copyBegin
           new == [NewWaveCache(numPixels, tstep, mRate, t0, mDirty) EXCEPT
                      !.where = fillWhere(numPixels, 0, fc.correction, t0, mRate,
                                          samplesPerPixel),
                      !.corr = fc.correction]
           drained == LoadInvalidRegions(mWaveCache, odSamples, fails, FALSE)
       IN  /\ fails \subseteq (IF keepOld THEN LoadableRegions(mWaveCache.mRegions)
                                ELSE {})
           /\ mWaveCache' = new
           /\ mWaveCacheMutex' = IF keepOld THEN "render" ELSE "free"
           /\ rt' = [RtIdle EXCEPT
                        !.pc = IF keepOld THEN "copydrain" ELSE "fill",
                        !.numPixels = numPixels, !.t0 = t0, !.tstep = tstep,
                        !.found = IF match THEN ViewOf(mWaveCache) ELSE NoView,
                        !.firstAfterDelete = rt.afterDelete,
                        !.discarded = rt.discarded,
                        !.p0 = FetchBegin(copyBegin, copyEnd),
                        !.p1 = FetchEnd(copyBegin, copyEnd, numPixels),
                        !.copyBegin = copyBegin, !.copyEnd = copyEnd,
                        !.oldX0 = fc.oldX0, !.correction = fc.correction,
                        !.oldCache = IF keepOld THEN [drained EXCEPT !.asked = {}]
                                     ELSE NoCache,
                        !.mode = IF keepOld THEN "copy" ELSE "miss",
                        !.stale = (mWaveCache.dirty # mDirty),
                        !.sameView = SameView(mWaveCache, numPixels, t0, tstep, mRate),
                        !.srcRegs = IF keepOld THEN mWaveCache.mRegions ELSE <<>>,
                        !.loaded = IF keepOld THEN drained.asked ELSE {},
                        !.needed = IF keepOld THEN mWaveCache.inval ELSE {},
                        !.seqFailed = (fails # {})]
    /\ UNCHANGED <<mDirty, mRate, numSamples, mAppendBufferLen, mOffset, odSamples,
                   mSpecCache, sp>>

\* lines 608-619: clear the old cache's regions, copy from it, unlock
GetWaveDisplayCopy ==
    /\ rt.pc = "copydrain"
    /\ mWaveCache' = CopyColumns(mWaveCache, ClearInvalidRegions(rt.oldCache),
                                 rt.copyBegin, rt.copyEnd, rt.oldX0)
    /\ rt' = [rt EXCEPT !.pc = "fill", !.oldCache = NoCache,
                        !.srcRegs = <<>>, !.loaded = {}, !.needed = {},
                        !.left = ClearInvalidRegions(rt.oldCache).mRegions]
    /\ mWaveCacheMutex' = "free"
    /\ UNCHANGED <<mDirty, mRate, numSamples, mAppendBufferLen, mOffset, odSamples,
                   mSpecCache, sp>>


\* lines 632-635: the first column of [p0, p1) that reaches past the Sequence
FirstAppendColumn(where, p0, p1, nSamples) ==
    LET past == {a \in p0 .. p1 - 1 : where[a + 2] > nSamples}
    IN  IF past = {} THEN p1 ELSE CHOOSE a \in past : \A b \in past : a <= b

\* lines 644-655: the part of the append buffer under column i
AppendLeft(where, i, nSamples) == Max(0, where[i + 1] - nSamples)

AppendRight(where, i, nSamples, appendLen) == Min(appendLen, where[i + 2] - nSamples)

\* lines 639-694: columns a .. p1-1 summarised from the append buffer
FillFromAppendBuffer(c, a, p1, nSamples, appendLen) ==
    LET has(i) == AppendRight(c.where, i, nSamples, appendLen) > AppendLeft(c.where, i, nSamples)
    IN  [c EXCEPT
            !.sum = [x \in 1 .. Len(c.sum) |->
                        IF x - 1 >= a /\ x - 1 < p1 /\ has(x - 1)
                        THEN <<nSamples + AppendLeft(c.where, x - 1, nSamples),
                               nSamples + AppendRight(c.where, x - 1, nSamples, appendLen)>>
                        ELSE c.sum[x]],
            !.bl = [x \in 1 .. Len(c.bl) |->
                        IF x - 1 >= a /\ x - 1 < p1 /\ has(x - 1) THEN 1 ELSE c.bl[x]]]

DidUpdate(c, a, p1, nSamples, appendLen) ==
    \E i \in a .. p1 - 1 :
        AppendRight(c.where, i, nSamples, appendLen) > AppendLeft(c.where, i, nSamples)

\* lines 632-698: the end of the columns left to the Sequence once the
\* append buffer has given its part
SequenceEnd(c, p0, p1, nSamples, appendLen) ==
    LET a == FirstAppendColumn(c.where, p0, p1, nSamples)
    IN  IF a < p1 /\ DidUpdate(c, a, p1, nSamples, appendLen) THEN a ELSE p1

\* lines 621, 700: whether the Sequence is asked for any column
SequenceAsked(c, p0, p1, nSamples, appendLen) ==
    p1 > p0 /\ SequenceEnd(c, p0, p1, nSamples, appendLen) > p0

\* a gap fill that hands the Sequence the arrays from column 0 rather than
\* from column p0, to compare FillGap with
FillGapFromColumnZero(c, p0, p1, nSamples, appendLen, od, seqOk) ==
    LET a == FirstAppendColumn(c.where, p0, p1, nSamples)
        appended == IF p1 > p0 /\ a < p1
                    THEN FillFromAppendBuffer(c, a, p1, nSamples, appendLen)
                    ELSE c
        end == SequenceEnd(c, p0, p1, nSamples, appendLen)
    IN  IF SequenceAsked(c, p0, p1, nSamples, appendLen)
        THEN [Sequence_GetWaveDisplay(appended, od, 0, end - p0, seqOk)
                EXCEPT !.asked = {}]
        ELSE appended

\* lines 621-715: the cache after the gap [p0, p1) has been filled, from the
\* append buffer and then from the Sequence
FillGap(c, p0, p1, nSamples, appendLen, od, seqOk) ==
    LET a == FirstAppendColumn(c.where, p0, p1, nSamples)
        appended == IF p1 > p0 /\ a < p1
                    THEN FillFromAppendBuffer(c, a, p1, nSamples, appendLen)
                    ELSE c
        end == SequenceEnd(c, p0, p1, nSamples, appendLen)
    IN  IF SequenceAsked(c, p0, p1, nSamples, appendLen)
        THEN [Sequence_GetWaveDisplay(appended, od, p0, end - p0, seqOk)
                EXCEPT !.asked = {}]
        ELSE appended

\* lines 621-735, the cache still alive: the gap [p0, p1) is filled through
\* the pointers into the published cache, outside the lock, and the result
\* is reported
GetWaveDisplayFill(seqOk) ==
    /\ rt.pc = "fill"
    /\ ~rt.deleted
    /\ LET asked == SequenceAsked(mWaveCache, rt.p0, rt.p1, numSamples,
                                  mAppendBufferLen)
       IN  /\ asked \/ seqOk
           /\ mWaveCache' = FillGap(mWaveCache, rt.p0, rt.p1, numSamples,
                                    mAppendBufferLen, odSamples, seqOk)
           /\ rt' = [RtReturn(rt, IF seqOk THEN "true" ELSE "false",
                               seqOk /\ mWaveCache.numODPixels > 0) EXCEPT
                        !.seqFailed = rt.seqFailed \/ ~seqOk]
    /\ UNCHANGED <<mDirty, mRate, numSamples, mAppendBufferLen, mOffset, odSamples,
                   mWaveCacheMutex, mSpecCache, sp>>

\* lines 621-735 after DeleteWaveCache has deleted the cache being filled:
\* every access goes through dangling pointers, any result may come back
GetWaveDisplayFillDeleted(ret) ==
    /\ rt.pc = "fill"
    /\ rt.deleted
    /\ rt' = RtReturn(rt, IF ret THEN "true" ELSE "false",
                      ret /\ mWaveCache.numODPixels > 0)
    /\ UNCHANGED <<mDirty, mRate, numSamples, mAppendBufferLen, mOffset, odSamples,
                   mWaveCache, mWaveCacheMutex, mSpecCache, sp>>

\* an AddInvalidRegion that does not take mWaveCacheMutex, to compare
\* AddInvalidRegion with
AddInvalidRegionUnlocked(startSample, endSample) ==
    /\ \E regs \in WaveCache_AddInvalidRegion(mWaveCache, startSample, endSample) :
          mWaveCache' = [mWaveCache EXCEPT
                            !.mRegions = regs,
                            !.inval = mWaveCache.inval \cup
                                      InvalColumns(mWaveCache, startSample, endSample)]
    /\ UNCHANGED <<mDirty, mRate, numSamples, mAppendBufferLen, mOffset, odSamples,
                   mWaveCacheMutex, rt, mSpecCache, sp>>

\* WaveClip::AddInvalidRegion, called by the decoding thread
AddInvalidRegion(startSample, endSample) ==
    /\ mWaveCacheMutex = "free"
    /\ \E regs \in WaveCache_AddInvalidRegion(mWaveCache, startSample, endSample) :
          mWaveCache' = [mWaveCache EXCEPT
                            !.mRegions = regs,
                            !.inval = mWaveCache.inval \cup
                                      InvalColumns(mWaveCache, startSample, endSample)]
    /\ UNCHANGED <<mDirty, mRate, numSamples, mAppendBufferLen, mOffset, odSamples,
                   mWaveCacheMutex, rt, mSpecCache, sp>>

\* lines 112-138: the call gets past both early returns and constructs the
\* locker on mRegionsMutex
ReachesLocker(c, sampleStart, sampleEnd) ==
    /\ c.tstep # 0
    /\ ~OffCache(c, InvalStart(c, sampleStart), InvalEnd(c, sampleEnd))

\* WaveClip::AddInvalidRegion up to the last statement of
\* WaveCache::AddInvalidRegion: the locker on mWaveCacheMutex (line 434), then,
\* past the early returns, the locker on mRegionsMutex (line 138) and the
\* insertion and merging of the region (lines 140-205); both lockers are still
\* in scope
AddInvalidRegionLocked(startSample, endSample) ==
    /\ mWaveCacheMutex = "free"
    /\ mWaveCacheMutex' = "decoder"
    /\ \E regs \in WaveCache_AddInvalidRegion(mWaveCache, startSample, endSample) :
          mWaveCache' = [mWaveCache EXCEPT
                            !.mRegions = regs,
                            !.mRegionsMutex =
                                IF ReachesLocker(mWaveCache, startSample, endSample)
                                THEN "decoder" ELSE "free",
                            !.inval = mWaveCache.inval \cup
                                      InvalColumns(mWaveCache, startSample, endSample)]
    /\ UNCHANGED <<mDirty, mRate, numSamples, mAppendBufferLen, mOffset, odSamples,
                   rt, mSpecCache, sp>>

\* the two lockers go out of scope (lines 205 and 437)
AddInvalidRegionUnlock ==
    /\ mWaveCacheMutex = "decoder"
    /\ mWaveCacheMutex' = "free"
    /\ mWaveCache' = [mWaveCache EXCEPT !.mRegionsMutex = "free"]
    /\ UNCHANGED <<mDirty, mRate, numSamples, mAppendBufferLen, mOffset, odSamples,
                   rt, mSpecCache, sp>>

\* a DeleteWaveCache that leaves the cache in place, to compare
\* DeleteWaveCache with
DeleteWaveCacheKeeping ==
    /\ mWaveCacheMutex = "free"
    /\ rt' = [rt EXCEPT !.afterDelete = TRUE,
                        !.discarded = (mWaveCache.mRegions # <<>>)]
    /\ UNCHANGED <<mDirty, mRate, numSamples, mAppendBufferLen, mOffset, odSamples,
                   mWaveCache, mWaveCacheMutex, mSpecCache, sp>>

\* WaveClip::DeleteWaveCache; afterDelete stays set until the next query
\* begins, discarded tells whether the deleted cache tracked a region
DeleteWaveCache ==
    /\ mWaveCacheMutex = "free"
    /\ mWaveCache' = DefaultWaveCache
    /\ rt' = [rt EXCEPT !.deleted = (rt.pc = "fill" \/ rt.deleted),
                        !.afterDelete = TRUE,
                        !.discarded = (mWaveCache.mRegions # <<>>)]
    /\ UNCHANGED <<mDirty, mRate, numSamples, mAppendBufferLen, mOffset, odSamples,
                   mWaveCacheMutex, mSpecCache, sp>>


(***************************************************************************)
(* The Sample Sequence, as far as the clip sees it: its length, which      *)
(* samples are still being decoded, and its block sizes.                   *)
(***************************************************************************)
MaxBlockSize == 2

\* Sequence::GetIdealAppendLen: what fills the last block
GetIdealAppendLen(n) == MaxBlockSize - (n % MaxBlockSize)

\* samples at and after s0 move up by n
ShiftUp(od, s0, n) == {s \in od : s < s0} \cup {s + n : s \in {u \in od : u >= s0}}

\* samples [s0, s0 + n) go, the later ones move down
ShiftDown(od, s0, n) ==
    {s \in od : s < s0} \cup {s - n : s \in {u \in od : u >= s0 + n}}

\* the background decoder finishes the blocks of samples first .. last
ODDecode(first, last) ==
    /\ first <= last
    /\ (first .. last) \subseteq odSamples
    /\ odSamples' = odSamples \ (first .. last)
    /\ UNCHANGED <<mDirty, mRate, numSamples, mAppendBufferLen, mOffset,
                   mWaveCache, mWaveCacheMutex, rt, mSpecCache, sp>>

(***************************************************************************)
(* WaveClip: coordinates and mutations.  The rendering thread is the       *)
(* thread that edits the clip, so an edit starts between two queries.      *)
(***************************************************************************)
\* MarkChanged
MarkChanged(dirty) == dirty + 1

\* a TimeToSamplesClip that does not look at the end of the Sequence, to
\* compare TimeToSamplesClip with
TimeToSamplesUnclipped(t0, offset, rate, n) ==
    IF t0 < offset THEN 0
    ELSE Floor((t0 - offset) * rate + (Den \div 2), Den)

\* WaveClip::TimeToSamplesClip
TimeToSamplesClip(t0, offset, rate, n) ==
    IF t0 < offset THEN 0
    ELSE IF (t0 - offset) * rate > n * Den THEN n
    ELSE Floor((t0 - offset) * rate + (Den \div 2), Den)

\* GetStartTime and GetEndTime, in 1/Den samples from time zero
StartPos(offset, rate) == offset * rate

EndPos(offset, rate, n, appendLen) == offset * rate + (n + appendLen) * Den

Editing == rt.pc = "idle" /\ mDirty < MaxDirty

\* WaveClip::SetSamples
SetSamples(ok) ==
    /\ Editing
    /\ numSamples > 0
    /\ ok \in BOOLEAN
    /\ mDirty' = MarkChanged(mDirty)
    /\ UNCHANGED <<mRate, numSamples, mAppendBufferLen, mOffset, odSamples,
                   mWaveCache, mWaveCacheMutex, rt, mSpecCache, sp>>

\* WaveClip::Append, lines 1261-1292: the loop, with len samples still to
\* take; failAt counts the Sequence appends until the one that fails (0:
\* none fails)
\* a copy of all the caller's samples whatever room the buffer has, to
\* compare ToCopy with
ToCopyAll(bufferLen, len) == len

\* lines 1278-1280: how many samples go into the buffer, which has room for
\* maxBlockSize
ToCopy(bufferLen, len) == Min(MaxBlockSize - bufferLen, len)

RECURSIVE AppendLoop(_, _, _, _)
AppendLoop(n, buf, len, failAt) ==
    LET flush == buf >= GetIdealAppendLen(n)
        n1 == IF flush THEN n + GetIdealAppendLen(n) ELSE n
        buf1 == IF flush THEN buf - GetIdealAppendLen(n) ELSE buf
        toCopy == ToCopy(buf1, len)
    IN  IF flush /\ failAt = 1 THEN [ok |-> FALSE, n |-> n, buf |-> buf]
        ELSE IF len = 0 THEN [ok |-> TRUE, n |-> n1, buf |-> buf1]
        ELSE AppendLoop(n1, buf1 + toCopy, len - toCopy,
                        IF flush /\ failAt > 0 THEN failAt - 1 ELSE failAt)

\* WaveClip::Append
WaveClipAppend(len, failAt) ==
    /\ rt.pc = "idle"
    /\ numSamples + mAppendBufferLen + len <= MaxSamples
    /\ LET r == AppendLoop(numSamples, mAppendBufferLen, len, failAt)
       IN  /\ failAt > 0 => ~r.ok
           /\ r.ok => mDirty < MaxDirty
           /\ numSamples' = r.n
           /\ mAppendBufferLen' = r.buf
           /\ mDirty' = IF r.ok THEN MarkChanged(mDirty) ELSE mDirty
    /\ UNCHANGED <<mRate, mOffset, odSamples, mWaveCache, mWaveCacheMutex, rt,
                   mSpecCache, sp>>

\* WaveClip::AppendAlias and WaveClip::AppendCoded
AppendAlias(len, useOD, ok) ==
    /\ Editing
    /\ len > 0
    /\ numSamples + mAppendBufferLen + len <= MaxSamples
    /\ numSamples' = IF ok THEN numSamples + len ELSE numSamples
    /\ odSamples' = IF ok /\ useOD
                    THEN odSamples \cup (numSamples .. numSamples + len - 1)
                    ELSE odSamples
    /\ mDirty' = IF ok THEN MarkChanged(mDirty) ELSE mDirty
    /\ UNCHANGED <<mRate, mAppendBufferLen, mOffset, mWaveCache, mWaveCacheMutex,
                   rt, mSpecCache, sp>>

\* WaveClip::Flush
\* a Flush that hands the buffer to the Sequence and does not empty it, to
\* compare Flush with
FlushKeepingBuffer(ok) ==
    /\ rt.pc = "idle"
    /\ mAppendBufferLen > 0 \/ ok
    /\ mAppendBufferLen > 0 /\ ok => mDirty < MaxDirty
    /\ numSamples + 2 * mAppendBufferLen <= MaxSamples
    /\ IF mAppendBufferLen > 0 /\ ok
       THEN /\ numSamples' = numSamples + mAppendBufferLen
            /\ mAppendBufferLen' = mAppendBufferLen
            /\ mDirty' = MarkChanged(mDirty)
       ELSE UNCHANGED <<numSamples, mAppendBufferLen, mDirty>>
    /\ UNCHANGED <<mRate, mOffset, odSamples, mWaveCache, mWaveCacheMutex, rt,
                   mSpecCache, sp>>

\* lines 1330-1342: what Flush returns; ok is the result of the Sequence
FlushResult(bufferLen, ok) == IF bufferLen > 0 THEN ok ELSE TRUE

Flush(ok) ==
    /\ rt.pc = "idle"
    /\ mAppendBufferLen > 0 \/ ok
    /\ mAppendBufferLen > 0 /\ ok => mDirty < MaxDirty
    /\ IF mAppendBufferLen > 0 /\ ok
       THEN /\ numSamples' = numSamples + mAppendBufferLen
            /\ mAppendBufferLen' = 0
            /\ mDirty' = MarkChanged(mDirty)
       ELSE UNCHANGED <<numSamples, mAppendBufferLen, mDirty>>
    /\ UNCHANGED <<mRate, mOffset, odSamples, mWaveCache, mWaveCacheMutex, rt,
                   mSpecCache, sp>>

\* an InsertSilence without MarkChanged, to compare InsertSilence with
InsertSilenceUnmarked(t, len, ok) ==
    /\ Editing
    /\ LET s0 == TimeToSamplesClip(t, mOffset, mRate, numSamples)
           slen == Floor(len * mRate + (Den \div 2), Den)
       IN  /\ numSamples + mAppendBufferLen + slen <= MaxSamples
           /\ numSamples' = IF ok THEN numSamples + slen ELSE numSamples
           /\ odSamples' = IF ok THEN ShiftUp(odSamples, s0, slen) ELSE odSamples
    /\ UNCHANGED <<mDirty, mRate, mAppendBufferLen, mOffset, mWaveCache,
                   mWaveCacheMutex, rt, mSpecCache, sp>>

\* WaveClip::InsertSilence(t, len); len * mRate + 0.5 floored is slen
InsertSilence(t, len, ok) ==
    /\ Editing
    /\ LET s0 == TimeToSamplesClip(t, mOffset, mRate, numSamples)
           slen == Floor(len * mRate + (Den \div 2), Den)
       IN  /\ numSamples + mAppendBufferLen + slen <= MaxSamples
           /\ numSamples' = IF ok THEN numSamples + slen ELSE numSamples
           /\ odSamples' = IF ok THEN ShiftUp(odSamples, s0, slen) ELSE odSamples
    /\ mDirty' = IF ok THEN MarkChanged(mDirty) ELSE mDirty
    /\ UNCHANGED <<mRate, mAppendBufferLen, mOffset, mWaveCache, mWaveCacheMutex,
                   rt, mSpecCache, sp>>

\* WaveClip::Clear(t0, t1); Sequence::Delete refuses a negative length
Clear(t0, t1, ok) ==
    /\ Editing
    /\ LET s0 == TimeToSamplesClip(t0, mOffset, mRate, numSamples)
           s1 == TimeToSamplesClip(t1, mOffset, mRate, numSamples)
           done == ok /\ s1 >= s0
       IN  /\ s1 < s0 => ~ok
           /\ numSamples' = IF done THEN numSamples - (s1 - s0) ELSE numSamples
           /\ odSamples' = IF done THEN ShiftDown(odSamples, s0, s1 - s0) ELSE odSamples
           /\ mOffset' = IF done /\ t0 < mOffset THEN t0 ELSE mOffset
           /\ mDirty' = IF done THEN MarkChanged(mDirty) ELSE mDirty
    /\ UNCHANGED <<mRate, mAppendBufferLen, mWaveCache, mWaveCacheMutex, rt,
                   mSpecCache, sp>>

\* WaveClip::ClearAndAddCutLine(t0, t1); copyOk: the cut line's CreateFromCopy
ClearAndAddCutLine(t0, t1, copyOk, ok) ==
    /\ Editing
    /\ LET outside == \/ t0 * mRate > EndPos(mOffset, mRate, numSamples, mAppendBufferLen)
                      \/ t1 * mRate < StartPos(mOffset, mRate)
           s0 == TimeToSamplesClip(t0, mOffset, mRate, numSamples)
           s1 == TimeToSamplesClip(t1, mOffset, mRate, numSamples)
           done == ~outside /\ copyOk /\ ok /\ s1 >= s0
       IN  /\ (outside \/ ~copyOk) => ok
           /\ outside => copyOk
           /\ s1 < s0 => ~ok \/ outside \/ ~copyOk
           /\ numSamples' = IF done THEN numSamples - (s1 - s0) ELSE numSamples
           /\ odSamples' = IF done THEN ShiftDown(odSamples, s0, s1 - s0) ELSE odSamples
           /\ mOffset' = IF done /\ t0 < mOffset THEN t0 ELSE mOffset
           /\ mDirty' = IF done THEN MarkChanged(mDirty) ELSE mDirty
    /\ UNCHANGED <<mRate, mAppendBufferLen, mWaveCache, mWaveCacheMutex, rt,
                   mSpecCache, sp>>

\* WaveClip::Paste(t0, other): other holds n samples; resampleOk: the copy's
\* Resample when the rates differ
Paste(t0, n, resampleOk, ok) ==
    /\ Editing
    /\ numSamples + mAppendBufferLen + n <= MaxSamples
    /\ ~resampleOk => ok
    /\ LET s0 == TimeToSamplesClip(t0, mOffset, mRate, numSamples)
           done == resampleOk /\ ok
       IN  /\ numSamples' = IF done THEN numSamples + n ELSE numSamples
           /\ odSamples' = IF done THEN ShiftUp(odSamples, s0, n) ELSE odSamples
           /\ mDirty' = IF done THEN MarkChanged(mDirty) ELSE mDirty
    /\ UNCHANGED <<mRate, mAppendBufferLen, mOffset, mWaveCache, mWaveCacheMutex,
                   rt, mSpecCache, sp>>

\* WaveClip::CreateFromCopy(t0, t1, other): n samples of other are copied
CreateFromCopy(n, ok) ==
    /\ Editing
    /\ n + mAppendBufferLen <= MaxSamples
    /\ numSamples' = IF ok THEN n ELSE numSamples
    /\ odSamples' = IF ok THEN {} ELSE odSamples
    /\ mDirty' = IF ok THEN MarkChanged(mDirty) ELSE mDirty
    /\ UNCHANGED <<mRate, mAppendBufferLen, mOffset, mWaveCache, mWaveCacheMutex,
                   rt, mSpecCache, sp>>

\* WaveClip::SetRate
SetRate(rate) ==
    /\ Editing
    /\ mRate' = rate
    /\ mDirty' = MarkChanged(mDirty)
    /\ UNCHANGED <<numSamples, mAppendBufferLen, mOffset, odSamples, mWaveCache,
                   mWaveCacheMutex, rt, mSpecCache, sp>>

\* WaveClip::SetOffset
SetOffset(offset) ==
    /\ rt.pc = "idle"
    /\ mOffset' = offset
    /\ UNCHANGED <<mDirty, mRate, numSamples, mAppendBufferLen, odSamples,
                   mWaveCache, mWaveCacheMutex, rt, mSpecCache, sp>>


(***************************************************************************)
(* The spectrogram cache.  A column of freq is abstracted to the sample    *)
(* its window was centred on.                                              *)
(***************************************************************************)
\* EXPERIMENTAL_ZERO_PADDED_SPECTROGRAMS
ZeroPaddedSpectrograms == TRUE

\* lines 1084-1088: the zero padding factor GetSpectrogram works with
ZeroPaddingFactor(settings) ==
    IF ZeroPaddedSpectrograms
    THEN IF settings.algorithm = "algPitchEAC" THEN 1 ELSE settings.zeroPaddingFactor
    ELSE 1

\* the settings of no query
NoSettings ==
    [algorithm |-> "none", windowType |-> -1, windowSize |-> -1,
     zeroPaddingFactor |-> -1, frequencyGain |-> -1]

\* SpecCache(): the default-constructed cache; settings remembers the
\* settings of the query that built the cache
DefaultSpecCache ==
    [dirty |-> -1, len |-> -1, start |-> -Den, tstep |-> 0,
     algorithm |-> "none", windowType |-> -1, windowSize |-> -1,
     zeroPaddingFactor |-> -1, frequencyGain |-> -1,
     where |-> <<>>, freq |-> <<>>, settings |-> NoSettings]

\* SpecCache(numPixels, algorithm, pps, start, windowType, windowSize,
\* zeroPaddingFactor, frequencyGain)
NewSpecCache(len, algorithm, tstep, t0, windowType, windowSize, zeroPaddingFactor, frequencyGain) ==
    [dirty |-> -1, len |-> len, start |-> t0, tstep |-> tstep,
     algorithm |-> algorithm, windowType |-> windowType, windowSize |-> windowSize,
     zeroPaddingFactor |-> zeroPaddingFactor, frequencyGain |-> frequencyGain,
     where |-> [x \in 1 .. len + 1 |-> 0],
     freq |-> [x \in 1 .. len |-> -1], settings |-> NoSettings]

\* a Matches that does not compare the window size, to compare Matches with
MatchesAnyWindowSize(c, dirty, tstep, settings, rate) ==
    /\ c.tstep # 0
    /\ Abs(tstep - c.tstep) * c.len * rate < Den
    /\ c.dirty = dirty
    /\ c.windowType = settings.windowType
    /\ c.zeroPaddingFactor = settings.zeroPaddingFactor
    /\ c.frequencyGain = settings.frequencyGain
    /\ c.algorithm = settings.algorithm

\* SpecCache::Matches
Matches(c, dirty, tstep, settings, rate) ==
    /\ c.tstep # 0
    /\ Abs(tstep - c.tstep) * c.len * rate < Den
    /\ c.dirty = dirty
    /\ c.windowType = settings.windowType
    /\ c.windowSize = settings.windowSize
    /\ c.zeroPaddingFactor = settings.zeroPaddingFactor
    /\ c.frequencyGain = settings.frequencyGain
    /\ c.algorithm = settings.algorithm

\* lines 1095-1099
SpecMatch(c, dirty, tstep, settings, rate) ==
    c.len > 0 /\ Matches(c, dirty, tstep, settings, rate)

\* lines 1101-1103
SpecFullHit(c, dirty, numPixels, t0, tstep, settings, rate) ==
    /\ SpecMatch(c, dirty, tstep, settings, rate)
    /\ c.start = t0
    /\ c.len >= numPixels

\* SpecCache::Populate: the columns before copyBegin and from copyEnd on are
\* computed, each centred on its where
Populate(c, copyBegin, copyEnd, numPixels) ==
    [c EXCEPT !.freq = [x \in 1 .. Len(c.freq) |->
                           IF x - 1 < copyBegin \/ (x - 1 >= copyEnd /\ x - 1 < numPixels)
                           THEN c.where[x] ELSE c.freq[x]]]

\* a copy match that does not look at the algorithm, to compare
\* SpecCopyMatch with
SpecCopyMatchAnyAlgorithm(c, dirty, tstep, settings, rate) ==
    SpecMatch(c, dirty, tstep, settings, rate)

\* lines 1108-1111: the match that allows columns to be copied
SpecCopyMatch(c, dirty, tstep, settings, rate) ==
    /\ SpecMatch(c, dirty, tstep, settings, rate)
    /\ settings.algorithm # "algReassignment"

\* the parameters in which the settings of a query differ from those of the
\* query that built the cache
Parameters ==
    {"algorithm", "windowType", "windowSize", "zeroPaddingFactor", "frequencyGain"}

Changed(c, settings) ==
    IF c.len <= 0 THEN {} ELSE {p \in Parameters : c.settings[p] # settings[p]}

SpIdle == [mode |-> "none", stale |-> FALSE, sameView |-> FALSE,
           copyBegin |-> 0, copyEnd |-> 0, numPixels |-> 0,
           changed |-> {}, matched |-> FALSE, sameTimes |-> FALSE]

\* the view parameters and settings of c are those of the query
SpecSameView(c, numPixels, t0, tstep, settings, rate) ==
    /\ SpecFullHit(c, c.dirty, numPixels, t0, tstep, settings, rate)

\* the start, the length and the pitch of c are those of the query, up to
\* the tolerance, whatever its settings
SpecSameTimes(c, numPixels, t0, tstep, rate) ==
    /\ c.tstep # 0
    /\ Abs(tstep - c.tstep) * c.len * rate < Den
    /\ c.start = t0
    /\ c.len >= numPixels

\* WaveClip::GetSpectrogram
GetSpectrogram(settings, numPixels, t0, tstep) ==
    /\ rt.pc = "idle"
    /\ IF SpecFullHit(mSpecCache, mDirty, numPixels, t0, tstep, settings, mRate)
       THEN /\ sp' = [SpIdle EXCEPT !.mode = "hit", !.numPixels = numPixels,
                                    !.changed = Changed(mSpecCache, settings),
                                    !.matched = TRUE,
                                    !.sameTimes = TRUE,
                                    !.stale = (mSpecCache.dirty # mDirty),
                                    !.sameView = TRUE]
            /\ UNCHANGED mSpecCache
       ELSE LET samplesPerPixel == SamplesPerPixel(mRate, tstep)
                match == SpecCopyMatch(mSpecCache, mDirty, tstep, settings, mRate)
                fc == IF match
                      THEN findCorrection(mSpecCache.where, mSpecCache.len, numPixels,
                                          t0, mRate, samplesPerPixel)
                      ELSE [oldX0 |-> 0, correction |-> 0]
                copyBegin == IF match THEN CopyBegin(numPixels, fc.oldX0) ELSE 0
                copyEnd == IF match THEN CopyEnd(numPixels, mSpecCache.len, fc.oldX0)
                           ELSE 0
                keepOld == copyEnd > copyBegin
                new == [NewSpecCache(numPixels, settings.algorithm, tstep, t0,
                                     settings.windowType, settings.windowSize,
                                     ZeroPaddingFactor(settings), settings.frequencyGain)
                          EXCEPT !.where = fillWhere(numPixels, Den \div 2, fc.correction,
                                                     t0, mRate, samplesPerPixel),
                                 !.settings = settings]
                copied == IF keepOld
                          THEN [new EXCEPT !.freq =
                                   [x \in 1 .. numPixels |->
                                       IF x - 1 >= copyBegin /\ x - 1 < copyEnd
                                       THEN mSpecCache.freq[x + fc.oldX0]
                                       ELSE new.freq[x]]]
                          ELSE new
            IN  /\ mSpecCache' = [Populate(copied, copyBegin, copyEnd, numPixels)
                                    EXCEPT !.dirty = mDirty]
                /\ sp' = [mode |-> IF keepOld THEN "copy" ELSE "miss",
                          stale |-> (mSpecCache.dirty # mDirty),
                          sameView |-> SpecSameView(mSpecCache, numPixels, t0, tstep,
                                                    settings, mRate),
                          copyBegin |-> copyBegin, copyEnd |-> copyEnd,
                          numPixels |-> numPixels,
                          changed |-> Changed(mSpecCache, settings),
                          matched |-> SpecMatch(mSpecCache, mDirty, tstep, settings,
                                                mRate),
                          sameTimes |-> SpecSameTimes(mSpecCache, numPixels, t0,
                                                      tstep, mRate)]
    /\ UNCHANGED <<mDirty, mRate, numSamples, mAppendBufferLen, mOffset, odSamples,
                   mWaveCache, mWaveCacheMutex, rt>>

\* WaveClip::Resample(rate): on success the Sequence is replaced and both
\* caches are reset; dirty is left alone
Resample(rate, ok) ==
    /\ rt.pc = "idle"
    /\ mWaveCacheMutex = "free"
    /\ rate # mRate \/ ok
    /\ IF rate # mRate /\ ok
       THEN /\ (numSamples * rate) \div mRate + mAppendBufferLen <= MaxSamples
            /\ numSamples' = (numSamples * rate) \div mRate
            /\ odSamples' = {}
            /\ mRate' = rate
            /\ mWaveCache' = DefaultWaveCache
            /\ mSpecCache' = DefaultSpecCache
       ELSE UNCHANGED <<numSamples, odSamples, mRate, mWaveCache, mSpecCache>>
    /\ UNCHANGED <<mDirty, mAppendBufferLen, mOffset, mWaveCacheMutex, rt, sp>>

\* WaveClip::WaveClip
Init ==
    /\ mDirty = 0
    /\ mRate \in {1}
    /\ numSamples = 0
    /\ mAppendBufferLen = 0
    /\ mOffset = 0
    /\ odSamples = {}
    /\ mWaveCache = DefaultWaveCache
    /\ mWaveCacheMutex = "free"
    /\ rt = RtIdle
    /\ mSpecCache = DefaultSpecCache
    /\ sp = SpIdle


(***************************************************************************)
(* The invalid-region tracker on its own: a view of RegionLen columns is   *)
(* cached, and sample ranges are invalidated in any order.                 *)
(***************************************************************************)
RegionTsteps == {Den, Den + 2}

NextRegions ==
    \/ \E tstep \in RegionTsteps : GetWaveDisplayRebuild(RegionLen, 0, tstep, {})
    \/ GetWaveDisplayFill(TRUE)
    \/ \E s \in 0 .. RegionSamples : \E e \in s .. RegionSamples : AddInvalidRegion(s, e)

SpecRegions == Init /\ [][NextRegions]_vars

\* C1: the regions a cache tracks are pairwise non-overlapping and
\* non-adjacent: for two distinct regions A and B, A.end + 1 < B.start or
\* B.end + 1 < A.start
C1_RegionsDisjoint ==
    \A i, j \in 1 .. Len(mWaveCache.mRegions) :
        i # j => \/ mWaveCache.mRegions[i].end + 1 < mWaveCache.mRegions[j].start
                 \/ mWaveCache.mRegions[j].end + 1 < mWaveCache.mRegions[i].start


\* the clipped pixel range AddInvalidRegion(s, e) works with on cache c
ClippedRange(c, s, e) ==
    Region(ClipToCache(c, InvalStart(c, s)), ClipToCache(c, InvalEnd(c, e)))

\* AddInvalidRegion(s, e) on cache c gets as far as the region vector
Tracked(c, s, e) ==
    /\ c.tstep # 0
    /\ ~(InvalStart(c, s) < 0 /\ InvalEnd(c, e) < 0)
    /\ ~(InvalStart(c, s) >= c.len /\ InvalEnd(c, e) >= c.len)

Covers(r, q) == r.start <= q.start /\ r.end >= q.end

\* C12: a call whose clipped range overlaps or is within one pixel of an
\* existing region leaves one region that holds the union of the two; a call
\* whose clipped range is more than one pixel away from every existing
\* region adds it as a region of its own
C12_TouchingRegionsMerged ==
    [][\A s \in 0 .. RegionSamples : \A e \in s .. RegionSamples :
          (AddInvalidRegion(s, e) /\ Tracked(mWaveCache, s, e)) =>
              LET n == ClippedRange(mWaveCache, s, e)
                  old == mWaveCache.mRegions
                  new == mWaveCache'.mRegions
                  touched == {i \in 1 .. Len(old) : Touching(old[i], n.start, n.end)}
              IN  /\ \A i \in touched :
                        \E j \in 1 .. Len(new) :
                            Covers(new[j], Union(old[i], n.start, n.end))
                  /\ touched = {} => \E j \in 1 .. Len(new) : new[j] = n]_vars

(***************************************************************************)
(* The clip with its waveform cache: MaxSamples samples are loaded, then   *)
(* the rendering thread queries views, with Sequence calls that may fail,  *)
(* while the background thread deletes the cache.                          *)
(***************************************************************************)
Pixels == MaxPixels - 1 .. MaxPixels

Times == 0 .. MaxT0

Tsteps == {Den, Den + 1}

Next ==
    \/ AppendAlias(MaxSamples, FALSE, TRUE)
    \/ \E n \in Pixels, t0 \in Times, tstep \in Tsteps :
          \/ GetWaveDisplayHitBegin(n, t0, tstep, {})
          \/ GetWaveDisplayRebuild(n, t0, tstep, {})
    \/ GetWaveDisplayHitEnd
    \/ GetWaveDisplayCopy
    \/ \E seqOk \in BOOLEAN : GetWaveDisplayFill(seqOk)
    \/ \E ret \in BOOLEAN : GetWaveDisplayFillDeleted(ret)
    \/ DeleteWaveCache

Spec == Init /\ [][Next]_vars

\* where of a cache built from scratch for the view
FromScratchWhere(numPixels, t0, tstep, rate) ==
    fillWhere(numPixels, 0, 0, t0, rate, SamplesPerPixel(rate, tstep))

\* C4, as stated: on a full hit the arrays handed out are, on the requested
\* columns, those of a from-scratch rebuild of the same view (checked on
\* where), whatever earlier queries made the cache
C4_FullHitAsFromScratch ==
    rt.pc = "hitdrain" =>
        \A x \in 1 .. rt.numPixels + 1 :
            mWaveCache.where[x]
                = FromScratchWhere(rt.numPixels, rt.t0, rt.tstep, mRate)[x]

\* C4, amended: on a full hit from a cache that was built with a zero
\* correction at exactly the requested pitch, where is, on the requested
\* columns, that of a from-scratch rebuild of the same view
C4_FullHitWhereExact ==
    (rt.pc = "hitdrain" /\ mWaveCache.corr = 0 /\ mWaveCache.tstep = rt.tstep) =>
        \A x \in 1 .. rt.numPixels + 1 :
            mWaveCache.where[x]
                = FromScratchWhere(rt.numPixels, rt.t0, rt.tstep, mRate)[x]

\* a full hit, on fewer columns than cached, from a cache that was built
\* from scratch away from time zero
C4_Witness ==
    /\ rt.pc = "hitdrain"
    /\ mWaveCache.corr = 0
    /\ mWaveCache.tstep = rt.tstep
    /\ rt.t0 > 0
    /\ rt.numPixels < mWaveCache.len

\* the whole numbers of pixels, below the length, by which the view of a
\* rebuild is later than the view of the cache it matched
WholeShift(r) == {k \in 1 .. r.numPixels - 1 : r.t0 - r.found.start = k * r.tstep}

Rebuilding == rt.pc \in {"copydrain", "fill"}

\* C14, as stated: a rebuild whose view is k whole pixels later than the
\* cached view of the same length and pitch copies length - k columns and
\* leaves k columns to compute
C14_WholeShiftCopies ==
    (Rebuilding /\ rt.found.len = rt.numPixels /\ rt.found.tstep = rt.tstep) =>
        \A k \in WholeShift(rt) :
            /\ rt.copyEnd - rt.copyBegin = rt.numPixels - k
            /\ rt.p1 - rt.p0 = k

\* C14, amended: a rebuild whose view is k whole pixels later than a cached
\* view of the same length and pitch that was built with a zero correction,
\* at one sample per pixel or more, copies length - k columns and leaves k
\* columns to compute
C14_WholeShiftOfUncorrected ==
    (/\ Rebuilding
     /\ rt.found.len = rt.numPixels
     /\ rt.found.tstep = rt.tstep
     /\ rt.found.corr = 0
     /\ SamplesPerPixel(mRate, rt.tstep) >= Den) =>
        \A k \in WholeShift(rt) :
            /\ rt.copyEnd - rt.copyBegin = rt.numPixels - k
            /\ rt.p1 - rt.p0 = k

\* a copy for a view that is whole pixels later than the uncorrected view
\* it copies from
C14_Witness ==
    /\ rt.pc = "copydrain"
    /\ rt.found.len = rt.numPixels
    /\ rt.found.tstep = rt.tstep
    /\ rt.found.corr = 0
    /\ WholeShift(rt) # {}

\* the cache a complete miss builds for a view: where with no correction,
\* every column computed
ScratchCache(numPixels, t0, tstep) ==
    FillGap([NewWaveCache(numPixels, tstep, mRate, t0, mDirty) EXCEPT
                !.where = FromScratchWhere(numPixels, t0, tstep, mRate)],
            0, numPixels, numSamples, mAppendBufferLen, odSamples, TRUE)

\* column x of a cache: its sample range, its summary and its flag
Column(c, x) ==
    [lo |-> c.where[x + 1], hi |-> c.where[x + 2], sum |-> c.sum[x + 1],
     bl |-> c.bl[x + 1]]

\* a partial hit whose view is one pixel away from the cached view of the
\* same length and pitch
OnePixelShift(r) ==
    /\ r.mode = "copy"
    /\ r.found.len = r.numPixels
    /\ r.found.tstep = r.tstep
    /\ Abs(r.t0 - r.found.start) = r.tstep

\* C15, as stated: on a partial hit for a view one pixel away, each column the
\* gap fill computes has the sample range, the summary and the flag of the
\* same column of a from-scratch computation of the new view
C15_NewColumnAsFromScratch ==
    [][(GetWaveDisplayFill(TRUE) /\ OnePixelShift(rt)) =>
          \A x \in rt.p0 .. rt.p1 - 1 :
              Column(mWaveCache', x)
                  = Column(ScratchCache(rt.numPixels, rt.t0, rt.tstep), x)]_vars

\* C15, amended: the same, for a partial hit whose correction is zero
C15_NewColumnOfUncorrected ==
    [][(GetWaveDisplayFill(TRUE) /\ OnePixelShift(rt) /\ rt.correction = 0) =>
          \A x \in rt.p0 .. rt.p1 - 1 :
              Column(mWaveCache', x)
                  = Column(ScratchCache(rt.numPixels, rt.t0, rt.tstep), x)]_vars

\* the gap fill of a one-pixel shift with zero correction is about to compute
\* a column that lies in the Sequence
C15_Witness ==
    /\ rt.pc = "fill"
    /\ ~rt.deleted
    /\ OnePixelShift(rt)
    /\ rt.correction = 0
    /\ rt.p1 > rt.p0
    /\ mWaveCache.where[rt.p0 + 2] <= numSamples

\* lines 700-706: the columns the gap fill asks the Sequence for
AskedColumns(c, p0, p1, nSamples, appendLen) ==
    IF SequenceAsked(c, p0, p1, nSamples, appendLen)
    THEN p0 .. SequenceEnd(c, p0, p1, nSamples, appendLen) - 1
    ELSE {}

\* C23: the gap fill asks the Sequence for no column whose sample range ends
\* beyond the samples of the Sequence
C23_NoColumnPastSequence ==
    [][\A seqOk \in BOOLEAN :
          GetWaveDisplayFill(seqOk) =>
              \A x \in AskedColumns(mWaveCache, rt.p0, rt.p1, numSamples,
                                    mAppendBufferLen) :
                  mWaveCache.where[x + 2] <= numSamples]_vars

\* the where of the new cache agrees with the where of the old cache on the
\* columns about to be copied
CopiedWhereAgrees ==
    \A x \in rt.copyBegin .. rt.copyEnd - 1 :
        /\ mWaveCache.where[x + 1] = rt.oldCache.where[x + rt.oldX0 + 1]
        /\ mWaveCache.where[x + 2] = rt.oldCache.where[x + rt.oldX0 + 2]

\* C27, as stated: on a partial hit every copied column has in the new cache
\* the sample range it had in the old cache
C27_CopiedRangeAgrees ==
    rt.pc = "copydrain" => CopiedWhereAgrees

\* C27, amended: the same, when the old cache has exactly the pitch of the
\* query and this pitch is a whole number of samples per pixel
C27_CopiedRangeAgreesWholePitch ==
    (/\ rt.pc = "copydrain"
     /\ rt.found.tstep = rt.tstep
     /\ SamplesPerPixel(mRate, rt.tstep) % Den = 0) => CopiedWhereAgrees

\* a partial hit at a whole number of samples per pixel whose correction is
\* not zero is about to copy
C27_Witness ==
    /\ rt.pc = "copydrain"
    /\ rt.found.tstep = rt.tstep
    /\ SamplesPerPixel(mRate, rt.tstep) % Den = 0
    /\ rt.correction # 0
    /\ rt.copyEnd > rt.copyBegin

\* C5: when the Sequence call of the gap fill fails, GetWaveDisplay returns
\* false with isLoadingOD false, and the cache built during the failed call
\* does not serve the same view as a full hit afterwards
C5_FailedCallLeavesNoCache ==
    (rt.pc = "idle" /\ rt.ret = "false") =>
        /\ ~rt.isLoadingOD
        /\ ~FullHit(mWaveCache, rt.numPixels, rt.t0, rt.tstep, mRate, mDirty)

\* C10: while the gap of a rebuilt cache is being filled, the cache the clip
\* points to is not one tagged with the current dirty that has unfilled
\* columns
C10_PublishedCacheIsFilled ==
    (rt.pc = "fill" /\ mWaveCacheMutex = "free" /\ mWaveCache.dirty = mDirty) =>
        \A x \in rt.p0 .. rt.p1 - 1 : mWaveCache.sum[x + 1] # NoData

\* C11: GetWaveDisplay never fills the arrays of a cache that
\* DeleteWaveCache has already deleted
C11_NoFillOfDeletedCache ==
    ~(rt.pc = "fill" /\ rt.deleted /\ rt.p1 > rt.p0)

(***************************************************************************)
(* The clip with its invalid regions: the samples are loaded, and the      *)
(* background thread invalidates sample ranges while the rendering thread  *)
(* queries two views of one pitch.                                         *)
(***************************************************************************)
InvalTimes == {0, Den + 1}

InvalSamples == 0 .. MaxSamples - 1

NextInval ==
    \/ AppendAlias(MaxSamples, FALSE, TRUE)
    \/ \E t0 \in InvalTimes, fails \in SUBSET (1 .. 2) :
          \/ GetWaveDisplayHitBegin(MaxPixels, t0, Den + 1, fails)
          \/ GetWaveDisplayRebuild(MaxPixels, t0, Den + 1, fails)
    \/ GetWaveDisplayHitEnd
    \/ GetWaveDisplayCopy
    \/ \E seqOk \in BOOLEAN : GetWaveDisplayFill(seqOk)
    \/ \E s \in InvalSamples : \E e \in s .. Min(MaxSamples - 1, s + MaxInvalLen - 1) :
          AddInvalidRegion(s, e)

SpecInval == Init /\ [][NextInval]_vars

Draining == rt.pc \in {"hitdrain", "copydrain"}

\* C6: when a Sequence call of the query has failed, in the gap fill or in
\* the drain of the invalid regions, GetWaveDisplay returns false
C6_AnyFailureReturnsFalse ==
    (rt.pc = "idle" /\ rt.seqFailed) => rt.ret = "false"

\* C7: the drain of a full hit or of a copy hands to the Sequence every
\* column of the cache whose sample range met a sample range given to
\* AddInvalidRegion since the last drain
C7_InvalidatedColumnsReloaded ==
    Draining => rt.needed \subseteq rt.loaded

C9_NoInsertInsideDrain ==
    Draining =>
        /\ mWaveCacheMutex = "render"
        /\ rt.pc = "hitdrain" => mWaveCache.mRegions = rt.srcRegs
        /\ rt.pc = "copydrain" => rt.oldCache.mRegions = rt.srcRegs

\* a full hit is between the load and the clear of a region with columns
C9_Witness ==
    /\ rt.pc = "hitdrain"
    /\ RegionColumns(rt.srcRegs) # {}

(***************************************************************************)
(* Invalidations off the cache: two views that do not overlap, and sample  *)
(* ranges before, on and after the cached one.                             *)
(***************************************************************************)
OffCacheTimes == {0, MaxPixels * Den}

OffCacheSamples == 0 .. 2 * MaxPixels

NextOffCache ==
    \/ AppendAlias(MaxSamples, FALSE, TRUE)
    \/ \E t0 \in OffCacheTimes : GetWaveDisplayRebuild(MaxPixels - 1, t0, Den, {})
    \/ GetWaveDisplayFill(TRUE)
    \/ \E s \in OffCacheSamples : \E e \in OffCacheSamples : s <= e /\ AddInvalidRegion(s, e)

SpecOffCache == Init /\ [][NextOffCache]_vars

\* C13: a call whose pixel endpoints are both below 0, or both at or above
\* len, leaves the regions as they were
C13_OffCacheIsNoOp ==
    [][\A s \in OffCacheSamples : \A e \in OffCacheSamples :
          (/\ s <= e
           /\ AddInvalidRegion(s, e)
           /\ mWaveCache.tstep # 0
           /\ \/ InvalStart(mWaveCache, s) < 0 /\ InvalEnd(mWaveCache, e) < 0
              \/ /\ InvalStart(mWaveCache, s) >= mWaveCache.len
                 /\ InvalEnd(mWaveCache, e) >= mWaveCache.len)
          => mWaveCache'.mRegions = mWaveCache.mRegions]_vars

\* a cache that tracks a region, with sample ranges off it on either side
C13_Witness ==
    /\ mWaveCache.mRegions # <<>>
    /\ \E s \in OffCacheSamples :
          InvalStart(mWaveCache, s) < 0 /\ InvalEnd(mWaveCache, s) < 0
    /\ \E s \in OffCacheSamples :
          InvalStart(mWaveCache, s) >= mWaveCache.len

(***************************************************************************)
(* The clip under edit: every mutation, with two waveform views and one    *)
(* spectrogram view queried between the edits.                             *)
(***************************************************************************)
EditTimes == {0, Den}

EditLens == {1, MaxBlockSize + 1}

Rates == {1, 2}

Settings ==
    {[algorithm |-> a, windowType |-> 0, windowSize |-> 2, zeroPaddingFactor |-> 1,
      frequencyGain |-> 0] : a \in {"algSTFT", "algReassignment"}}

NextEdits ==
    \/ \E ok \in BOOLEAN : SetSamples(ok)
    \/ \E len \in EditLens, failAt \in 0 .. 1 : WaveClipAppend(len, failAt)
    \/ \E len \in EditLens, ok \in BOOLEAN : AppendAlias(len, FALSE, ok)
    \/ \E ok \in BOOLEAN : Flush(ok)
    \/ \E t \in EditTimes, ok \in BOOLEAN : InsertSilence(t, Den, ok)
    \/ \E t0 \in EditTimes, t1 \in EditTimes, ok \in BOOLEAN : Clear(t0, t1, ok)
    \/ \E t0 \in EditTimes, t1 \in EditTimes, copyOk \in BOOLEAN, ok \in BOOLEAN :
          ClearAndAddCutLine(t0, t1, copyOk, ok)
    \/ \E t0 \in EditTimes, resampleOk \in BOOLEAN, ok \in BOOLEAN :
          Paste(t0, 1, resampleOk, ok)
    \/ \E ok \in BOOLEAN : CreateFromCopy(1, ok)
    \/ \E rate \in Rates : SetRate(rate)
    \/ \E rate \in Rates, ok \in BOOLEAN : Resample(rate, ok)
    \/ \E t0 \in EditTimes :
          \/ GetWaveDisplayHitBegin(MaxPixels - 1, t0, Den, {})
          \/ GetWaveDisplayRebuild(MaxPixels - 1, t0, Den, {})
    \/ GetWaveDisplayHitEnd
    \/ GetWaveDisplayCopy
    \/ GetWaveDisplayFill(TRUE)
    \/ \E settings \in Settings : GetSpectrogram(settings, MaxPixels - 1, 0, Den)

SpecEdits == Init /\ [][NextEdits]_vars

\* C2: a query that found a cache whose dirty is not the clip's used it
\* neither as a full hit nor as a copy source: nothing is copied and every
\* requested column is in the range to compute
C2_StaleCacheNotUsed ==
    /\ rt.stale =>
          /\ rt.mode = "miss"
          /\ rt.copyBegin = rt.copyEnd
          /\ rt.pc = "fill" => (rt.p0 = 0 /\ rt.p1 = rt.numPixels)
    /\ sp.stale =>
          /\ sp.mode = "miss"
          /\ sp.copyBegin = 0
          /\ sp.copyEnd = 0

\* both queries found a cache of the same view made before an edit
C2_Witness ==
    /\ rt.stale /\ rt.sameView
    /\ sp.stale /\ sp.sameView

\* the successful content mutations
SuccessfulMutation ==
    \/ SetSamples(TRUE)
    \/ \E len \in EditLens : WaveClipAppend(len, 0)
    \/ mAppendBufferLen > 0 /\ Flush(TRUE)
    \/ \E t \in EditTimes : InsertSilence(t, Den, TRUE)
    \/ \E t0 \in EditTimes, t1 \in EditTimes : Clear(t0, t1, TRUE)
    \/ /\ \E t0 \in EditTimes, t1 \in EditTimes : ClearAndAddCutLine(t0, t1, TRUE, TRUE)
       /\ numSamples' < numSamples
    \/ \E t0 \in EditTimes : Paste(t0, 1, TRUE, TRUE)
    \/ CreateFromCopy(1, TRUE)
    \/ \E rate \in Rates : SetRate(rate)

\* C3: every successful content mutation strictly increases dirty, and no
\* step decreases dirty
C3_DirtyIncreases ==
    [][(SuccessfulMutation => mDirty' > mDirty) /\ mDirty' >= mDirty]_vars

\* C25: every step that changes the samples of the Sequence or of the append
\* buffer, seen here as a change of their number, changes dirty
C25_ContentChangeMarks ==
    [][(numSamples' # numSamples \/ mAppendBufferLen' # mAppendBufferLen)
          => mDirty' # mDirty]_vars

\* the clip has been mutated MaxDirty times and holds samples
C3_Witness ==
    /\ mDirty = MaxDirty
    /\ numSamples > 0
    /\ mAppendBufferLen > 0

(***************************************************************************)
(* The where mapping: a waveform view and a spectrogram view queried at    *)
(* two times no earlier than the start of the clip and at two pitches of   *)
(* several samples per pixel, so that a rebuild aligned with the old cache *)
(* reaches below sample 0.                                                 *)
(***************************************************************************)
WhereTimes == {0, 2 * Den}

WhereTsteps == {3 * Den, 5 * Den}

WherePixels == {1, MaxPixels - 1}

NextWhere ==
    \/ \E numPixels \in WherePixels, t0 \in WhereTimes, tstep \in WhereTsteps :
          \/ GetWaveDisplayRebuild(numPixels, t0, tstep, {})
          \/ \E settings \in Settings : GetSpectrogram(settings, numPixels, t0, tstep)
    \/ GetWaveDisplayCopy
    \/ GetWaveDisplayFill(TRUE)

SpecWhere == Init /\ [][NextWhere]_vars

NonDecreasingFromZero(where) ==
    Len(where) > 0 =>
        /\ where[1] >= 0
        /\ \A x \in 1 .. Len(where) - 1 : where[x] <= where[x + 1]

ODTimes == {0, Den}

NextOD ==
    \/ AppendAlias(MaxSamples, TRUE, TRUE)
    \/ \E first \in 0 .. MaxSamples - 1, last \in 0 .. MaxSamples - 1 :
          ODDecode(first, last)
    \/ \E t0 \in ODTimes :
          \/ GetWaveDisplayHitBegin(MaxPixels - 1, t0, Den, {})
          \/ GetWaveDisplayRebuild(MaxPixels - 1, t0, Den, {})
    \/ GetWaveDisplayHitEnd
    \/ GetWaveDisplayCopy
    \/ GetWaveDisplayFill(TRUE)
    \/ \E s \in 0 .. MaxSamples - 1 : AddInvalidRegion(s, s)

SpecOD == Init /\ [][NextOD]_vars

\* some column of the cache carries the flag of a block still being loaded
HasLoadingColumn(c) == \E x \in 1 .. c.len : c.bl[x] < 0

\* C17: when GetWaveDisplay has returned a freshly built cache (a miss or a
\* partial hit), isLoadingOD is true exactly when some column of that cache
\* carries a still-loading flag
C17_FreshLoadingFlagExact ==
    (rt.pc = "idle" /\ rt.mode \in {"miss", "copy"} /\ rt.ret = "true") =>
        (rt.isLoadingOD <=> HasLoadingColumn(mWaveCache))

\* C26: while no GetWaveDisplay call is running, numODPixels of the cache is
\* the number of its columns that carry the still-loading flag
C26_CountIsLoadingColumns ==
    (rt.pc = "idle" /\ mWaveCache.len > 0) =>
        mWaveCache.numODPixels = CountODPixels(mWaveCache.bl, 0, mWaveCache.len)

(***************************************************************************)
(* Forced invalidation: DeleteWaveCache and AddInvalidRegion from the      *)
(* background thread while two waveform views are queried.                 *)
(***************************************************************************)
DeleteTimes == {0, Den}

NextDelete ==
    \/ AppendAlias(MaxSamples, FALSE, TRUE)
    \/ \E t0 \in DeleteTimes :
          \/ GetWaveDisplayHitBegin(MaxPixels, t0, Den, {})
          \/ GetWaveDisplayRebuild(MaxPixels, t0, Den, {})
    \/ GetWaveDisplayHitEnd
    \/ GetWaveDisplayCopy
    \/ GetWaveDisplayFill(TRUE)
    \/ \E ret \in BOOLEAN : GetWaveDisplayFillDeleted(ret)
    \/ \E s \in 0 .. MaxSamples - 1 : AddInvalidRegion(s, s)
    \/ DeleteWaveCache

SpecDelete == Init /\ [][NextDelete]_vars

\* C18: from DeleteWaveCache until the next query begins the cache tracks no
\* invalid region, and that query is a complete miss: not a full hit, no
\* column copied, no region of an older cache loaded, every column computed
C18_MissAfterDelete ==
    /\ rt.afterDelete => mWaveCache.mRegions = <<>>
    /\ (rt.firstAfterDelete /\ rt.pc # "idle") =>
          /\ rt.mode = "miss"
          /\ rt.copyBegin = 0 /\ rt.copyEnd = 0
          /\ rt.p0 = 0 /\ rt.p1 = rt.numPixels
          /\ rt.srcRegs = <<>>

\* the first query after a DeleteWaveCache that deleted a cache with a
\* pending invalid region is about to fill its columns
C18_Witness ==
    /\ rt.firstAfterDelete
    /\ rt.discarded
    /\ rt.pc = "fill"
    /\ numSamples > 0

(***************************************************************************)
(* The spectrogram under changing settings: every combination of three     *)
(* algorithms and two values of each other parameter, queried for two      *)
(* overlapping views of one pitch.                                         *)
(***************************************************************************)
AllSettings ==
    [algorithm : {"algSTFT", "algReassignment", "algPitchEAC"},
     windowType : {0, 1}, windowSize : {2, 4}, zeroPaddingFactor : {1, 2},
     frequencyGain : {0, 1}]

SpectrogramTimes == {0, Den}

NextSpectrogram ==
    \E settings \in AllSettings, t0 \in SpectrogramTimes :
        GetSpectrogram(settings, MaxPixels, t0, Den)

SpecSpectrogram == Init /\ [][NextSpectrogram]_vars

CompleteMiss(s) == s.mode = "miss" /\ s.copyBegin = 0 /\ s.copyEnd = 0

\* C19, as stated: a query whose settings differ in any parameter from those
\* of the query that built the cache is a complete miss
C19_AnyChangeMisses ==
    sp.changed # {} => CompleteMiss(sp)

\* C19, amended: a query whose settings differ from those of the query that
\* built the cache in a parameter other than the zero padding factor, or
\* with the pitch algorithm not in force in the zero padding factor, is a
\* complete miss
C19_EffectiveChangeMisses ==
    (\/ sp.changed \ {"zeroPaddingFactor"} # {}
     \/ sp.changed # {} /\ mSpecCache.algorithm # "algPitchEAC") =>
        CompleteMiss(sp)

\* C21: a query with the view, the settings and the dirty count of the
\* query that built the cache is a full hit
C21_RepeatedQueryHits ==
    (sp.sameTimes /\ sp.changed = {} /\ ~sp.stale) => sp.mode = "hit"

\* C20: with the reassignment algorithm a query is a full hit or computes
\* every requested column anew, copying none from the old cache
C20_ReassignmentNeverCopies ==
    (sp.mode # "none" /\ mSpecCache.algorithm = "algReassignment") =>
        sp.mode = "hit" \/ CompleteMiss(sp)

\* a reassignment query for a view that overlaps the view of a matching
\* cache, which would otherwise be copied from, has computed every column
C20_Witness ==
    /\ mSpecCache.algorithm = "algReassignment"
    /\ sp.matched
    /\ ~sp.sameTimes
    /\ sp.mode = "miss"
    /\ \A x \in 1 .. mSpecCache.len : mSpecCache.freq[x] = mSpecCache.where[x]

\* a query that changed only the window size, for the view and the dirty
\* count of the cache it found
C19_Witness ==
    /\ sp.changed = {"windowSize"}
    /\ sp.sameTimes
    /\ ~sp.stale
    /\ sp.mode = "miss"

(***************************************************************************)
(* The correction: waveform views of one or two columns, at a pitch of a   *)
(* quarter sample per pixel and at a pitch of one, some overlapping the    *)
(* cached view and some clear of it.                                       *)
(***************************************************************************)
CorrectionPixels == {1, MaxPixels - 1, MaxPixels}

CorrectionTimes == (0 .. 2) \cup {MaxT0, MaxPixels * Den}

CorrectionTsteps == {1, Den, Den + 1}

NextCorrection ==
    \/ \E numPixels \in CorrectionPixels, t0 \in CorrectionTimes,
          tstep \in CorrectionTsteps :
          GetWaveDisplayRebuild(numPixels, t0, tstep, {})
    \/ GetWaveDisplayCopy
    \/ GetWaveDisplayFill(TRUE)

SpecCorrection == Init /\ [][NextCorrection]_vars

\* C22: a rebuild that matches a cache whose sample range does not overlap
\* the new one, or whose sample length is below 0.5, gets oldX0 = oldLen and
\* correction = 0 and copies nothing from the old cache
C22_DegenerateCopiesNothing ==
    [][\A numPixels \in CorrectionPixels, t0 \in CorrectionTimes,
          tstep \in CorrectionTsteps :
          (/\ GetWaveDisplayRebuild(numPixels, t0, tstep, {})
           /\ Match(mWaveCache, tstep, numPixels, mRate, mDirty)
           /\ Degenerate(mWaveCache, numPixels, t0, mRate,
                         SamplesPerPixel(mRate, tstep)))
          => /\ rt'.oldX0 = mWaveCache.len
             /\ rt'.correction = 0
             /\ rt'.copyEnd = rt'.copyBegin
             /\ rt'.mode = "miss"
             /\ rt'.p0 = 0 /\ rt'.p1 = numPixels]_vars

\* a rebuild has matched a cache of sample length below 0.5 whose range
\* overlaps the new one, and is about to compute every column
C22_Witness ==
    /\ rt.pc = "fill"
    /\ rt.found.len > 0
    /\ 2 * rt.found.len * SamplesPerPixel(mRate, rt.found.tstep) < Den
    /\ rt.found.start < rt.t0
    /\ rt.t0 < MaxPixels * Den
    /\ rt.oldX0 = rt.found.len
    /\ rt.mode = "miss"

\* C28: whenever a query matches the cache and findCorrection takes its
\* non-degenerate branch, the correction it computes is no larger in magnitude
\* than samplesPerPixel, so clamping it to [-samplesPerPixel, samplesPerPixel]
\* leaves it as computed and the query continues with exactly that value.
C28_CorrectionIsSubPixel ==
    [][\A numPixels \in CorrectionPixels, t0 \in CorrectionTimes,
          tstep \in CorrectionTsteps :
          (/\ GetWaveDisplayRebuild(numPixels, t0, tstep, {})
           /\ Match(mWaveCache, tstep, numPixels, mRate, mDirty)
           /\ ~Degenerate(mWaveCache, numPixels, t0, mRate,
                          SamplesPerPixel(mRate, tstep)))
          => LET samplesPerPixel == SamplesPerPixel(mRate, tstep)
                 fc == findCorrection(mWaveCache.where, mWaveCache.len,
                                      numPixels, t0, mRate, samplesPerPixel)
             IN  /\ Abs(fc.correction0) <= samplesPerPixel
                 /\ fc.correction = fc.correction0
                 /\ rt'.correction = fc.correction0
                 /\ rt'.oldX0 = fc.oldX0]_vars

\* a rebuild whose new view starts a column before the matched cache:
\* the non-degenerate branch ran, the column offset is negative and the
\* correction is not zero
C28_Witness ==
    /\ Rebuilding
    /\ rt.found.len > 0
    /\ rt.oldX0 < 0
    /\ rt.oldX0 + rt.numPixels > 0
    /\ rt.correction # 0

(***************************************************************************)
(* Times and samples: a clip that is moved, whose rate is set, that grows  *)
(* and that is cleared between two times.                                  *)
(***************************************************************************)
ClipOffsets == {0, 1, Den, Den + 1}

ClipTimes == 0 .. MaxSamples * Den + 2

NextClipTimes ==
    \/ \E offset \in ClipOffsets : SetOffset(offset)
    \/ \E rate \in Rates : SetRate(rate)
    \/ \E len \in 1 .. 2, useOD \in BOOLEAN : AppendAlias(len, useOD, TRUE)
    \/ \E t0 \in ClipTimes, t1 \in ClipTimes : Clear(t0, t1, TRUE)

SpecClipTimes == Init /\ [][NextClipTimes]_vars

\* C24: for every time, TimeToSamplesClip gives a sample index from 0 to the
\* number of samples of the Sequence: 0 before the offset, the number of
\* samples after the end, and otherwise the sample nearest to the time
C24_ClippedToSamples ==
    \A t \in ClipTimes :
        LET s == TimeToSamplesClip(t, mOffset, mRate, numSamples)
            pos == (t - mOffset) * mRate
        IN  /\ 0 <= s /\ s <= numSamples
            /\ t < mOffset => s = 0
            /\ pos > numSamples * Den => s = numSamples
            /\ (0 <= pos /\ pos <= numSamples * Den) =>
                  /\ 2 * (s * Den - pos) <= Den
                  /\ 2 * (pos - s * Den) < Den

\* a moved clip with samples, after a Clear, with a time that falls between
\* two samples and a time after the end
C24_Witness ==
    /\ mOffset > 0
    /\ numSamples > 0
    /\ mDirty = MaxDirty
    /\ \E t \in ClipTimes :
          /\ t > mOffset
          /\ (t - mOffset) * mRate < numSamples * Den
          /\ ((t - mOffset) * mRate) % Den # 0
    /\ \E t \in ClipTimes : (t - mOffset) * mRate > numSamples * Den

\* C35: in every rebuild of GetWaveDisplay each column of the request is in
\* the copied range [copyBegin, copyEnd) or in the range [p0, p1) that is
\* fetched from the Sequence, whatever oldX0 findCorrection returned
C35_CopyAndFetchCoverRequest ==
    Rebuilding
    => \A x \in 0 .. rt.numPixels - 1 :
          \/ rt.copyBegin <= x /\ x < rt.copyEnd
          \/ rt.p0 <= x /\ x < rt.p1

\* a rebuild whose view begins before the matched cache and ends after it:
\* columns are copied in the middle and fetched on both sides
C35_Witness ==
    /\ Rebuilding
    /\ rt.found.len > 0
    /\ 0 < rt.copyBegin /\ rt.copyBegin < rt.copyEnd /\ rt.copyEnd < rt.numPixels
    /\ rt.oldX0 < 0
    /\ rt.p0 = 0 /\ rt.p1 = rt.numPixels

(***************************************************************************)
(* The two locks around the region set: the decoding thread adds regions   *)
(* in two steps, taking its lockers and releasing them, while the render   *)
(* thread queries the same view again and a shifted one.                   *)
(***************************************************************************)
LockTimes == {0, Den}

LockSamples == 0 .. MaxPixels

NextLocks ==
    \/ \E t0 \in LockTimes :
          \/ GetWaveDisplayHitBegin(MaxPixels - 1, t0, Den, {})
          \/ GetWaveDisplayRebuild(MaxPixels - 1, t0, Den, {})
    \/ GetWaveDisplayHitEnd
    \/ GetWaveDisplayCopy
    \/ GetWaveDisplayFill(TRUE)
    \/ \E s \in LockSamples : AddInvalidRegionLocked(s, s)
    \/ AddInvalidRegionUnlock

SpecLocks == Init /\ [][NextLocks]_vars

\* the step keeps the cache object (GetWaveDisplay installs a new one when it
\* leaves "idle" for a rebuild) and changes its region set
RegionsMutated ==
    /\ ~(rt.pc = "idle" /\ rt'.pc \in {"copydrain", "fill"})
    /\ mWaveCache'.mRegions # mWaveCache.mRegions

\* C29: every step that changes the region set of a cache is made by a thread
\* that holds that cache's mRegionsMutex when the change is complete, whether
\* it is AddInvalidRegion adding a region or ClearInvalidRegions emptying the
\* set
C29_RegionsMutatedUnderRegionsMutex ==
    [][RegionsMutated => mWaveCache'.mRegionsMutex # "free"]_vars

\* lines 217-232: region r addresses only columns of the arrays of a cache of
\* len columns (where has one entry more)
RegionInCache(r, len) ==
    /\ 0 <= r.start /\ r.start <= r.end /\ r.end <= len
    /\ r.start < len

\* C37: with invalidations of sample ranges sampleStart <= sampleEnd, every
\* tracked region of the cache, and of the old cache a rebuild is copying
\* from, has 0 <= start <= end <= len and start < len
C37_RegionsInsideCache ==
    /\ \A i \in 1 .. Len(mWaveCache.mRegions) :
          RegionInCache(mWaveCache.mRegions[i], mWaveCache.len)
    /\ \A i \in 1 .. Len(rt.oldCache.mRegions) :
          RegionInCache(rt.oldCache.mRegions[i], rt.oldCache.len)

\* a cache that does not start at sample 0 and is tracked as a whole, which is
\* what a sample range from before it to after it is clipped to
C37_Witness ==
    /\ mWaveCache.start > 0
    /\ mWaveCache.mRegions = <<Region(0, mWaveCache.len)>>
    /\ InvalStart(mWaveCache, 0) < 0
    /\ InvalEnd(mWaveCache, 2 * MaxPixels) > mWaveCache.len

(***************************************************************************)
(* Invalidations of a cache without a pitch: the clip's cache is the       *)
(* default one after construction, after DeleteWaveCache and after a       *)
(* Resample, and a built one in between.                                   *)
(***************************************************************************)
ZeroPpsSamples == 0 .. MaxPixels

ZeroPpsTimes == {0, Den}

NextZeroPps ==
    \/ \E t0 \in ZeroPpsTimes : GetWaveDisplayRebuild(MaxPixels - 1, t0, Den, {})
    \/ GetWaveDisplayCopy
    \/ GetWaveDisplayFill(TRUE)
    \/ \E ret \in BOOLEAN : GetWaveDisplayFillDeleted(ret)
    \/ \E s \in ZeroPpsSamples : \E e \in ZeroPpsSamples : s <= e /\ AddInvalidRegion(s, e)
    \/ DeleteWaveCache
    \/ \E rate \in Rates : Resample(rate, TRUE)

SpecZeroPps == Init /\ [][NextZeroPps]_vars

\* C30: AddInvalidRegion on a cache whose pps is zero (the default cache of
\* the constructor, of DeleteWaveCache and of Resample) leaves the region set
\* as it was, which is empty
C30_ZeroPpsIsNoOp ==
    [][\A s \in ZeroPpsSamples : \A e \in ZeroPpsSamples :
          (s <= e /\ AddInvalidRegion(s, e) /\ mWaveCache.tstep = 0)
          => /\ mWaveCache'.mRegions = mWaveCache.mRegions
             /\ mWaveCache'.mRegions = <<>>]_vars

\* the default cache put in place by DeleteWaveCache, which discarded a cache
\* that tracked regions, on a clip that was resampled before
C30_Witness ==
    /\ mWaveCache = DefaultWaveCache
    /\ mWaveCache.tstep = 0
    /\ mWaveCacheMutex = "free"
    /\ rt.afterDelete /\ rt.discarded
    /\ mRate # 1

(***************************************************************************)
(* What a drain leaves alone, checked where reloading a column shows: the  *)
(* decoding thread turns loading samples into decoded ones (SpecOD).       *)
(***************************************************************************)
\* the columns start .. end of every region of a list, both ends included
ClosedRegionColumns(regs) ==
    UNION {regs[i].start .. regs[i].end : i \in 1 .. Len(regs)}

\* every column of c outside its tracked regions has in d the data, the flag
\* and the sample position it has in c
KeepsUntracked(c, d) ==
    /\ d.where = c.where
    /\ \A x \in 1 .. c.len :
          (x - 1) \notin ClosedRegionColumns(c.mRegions)
          => d.sum[x] = c.sum[x] /\ d.bl[x] = c.bl[x]

\* C31: a drain (LoadInvalidRegions of the cache on a full hit, of the old
\* cache before a copy) leaves every column outside all tracked regions
\* [start, end] with the data and the flag it had
C31_DrainKeepsUntrackedColumns ==
    [][/\ (rt.pc = "idle" /\ rt'.pc = "hitdrain")
          => KeepsUntracked(mWaveCache, mWaveCache')
       /\ (rt.pc = "idle" /\ rt'.pc = "copydrain")
          => KeepsUntracked(mWaveCache, rt'.oldCache)]_vars

\* a full hit has just drained a region: a tracked column was reloaded and is
\* decoded now, a column outside the regions still carries its loading flag
C31_Witness ==
    /\ rt.pc = "hitdrain"
    /\ rt.srcRegs # <<>>
    /\ \E x \in rt.loaded : x < mWaveCache.len /\ mWaveCache.bl[x + 1] = 0
    /\ \E x \in 0 .. mWaveCache.len - 1 :
          /\ x \notin ClosedRegionColumns(rt.srcRegs)
          /\ mWaveCache.bl[x + 1] < 0

(***************************************************************************)
(* Append and Flush on the samples themselves: the Sequence and the append *)
(* buffer as lists, with the render thread looking at the clip in between. *)
(***************************************************************************)
\* the samples numbered first .. last, in order
Ids(first, last) == [i \in 1 .. last - first + 1 |-> first + i - 1]

\* a buffer whose length is reduced but whose samples are not moved down, to
\* compare ShiftBuffer with
TruncateBuffer(buf, blockSize) == SubSeq(buf, 1, Len(buf) - blockSize)

\* lines 1270-1273: the memmove of what is left of the buffer to its front
ShiftBuffer(buf, blockSize) == SubSeq(buf, blockSize + 1, Len(buf))

\* lines 1254-1298, the loop of WaveClip::Append on lists of samples: seq is
\* the Sequence, buf the append buffer, input what is left of the caller's
\* buffer; moves records the size of every block handed to the Sequence and
\* how many samples the buffer held then
RECURSIVE AppendSamples(_, _, _, _, _)
AppendSamples(seq, buf, input, failAt, moves) ==
    LET blockSize == GetIdealAppendLen(Len(seq))
        flush == Len(buf) >= blockSize
        seq1 == IF flush THEN seq \o SubSeq(buf, 1, blockSize) ELSE seq
        buf1 == IF flush THEN ShiftBuffer(buf, blockSize) ELSE buf
        moves1 == IF flush
                  THEN Append(moves, [size |-> blockSize, held |-> Len(buf)])
                  ELSE moves
        toCopy == ToCopy(Len(buf1), Len(input))
    IN  IF flush /\ failAt = 1
        THEN [ok |-> FALSE, seq |-> seq, buf |-> buf, moves |-> moves]
        ELSE IF input = <<>>
        THEN [ok |-> TRUE, seq |-> seq1, buf |-> buf1, moves |-> moves1]
        ELSE AppendSamples(seq1, buf1 \o SubSeq(input, 1, toCopy),
                           SubSeq(input, toCopy + 1, Len(input)),
                           IF flush /\ failAt > 0 THEN failAt - 1 ELSE failAt,
                           moves1)

AppendLens == 1 .. MaxBlockSize + 1

AppendTimes == {0, Den}

NextAppend ==
    \/ \E len \in AppendLens, failAt \in 0 .. 1 : WaveClipAppend(len, failAt)
    \/ \E ok \in BOOLEAN : Flush(ok)
    \/ AppendAlias(1, FALSE, TRUE)
    \/ \E t0 \in AppendTimes :
          \/ GetWaveDisplayHitBegin(MaxPixels - 1, t0, Den, {})
          \/ GetWaveDisplayRebuild(MaxPixels - 1, t0, Den, {})
    \/ GetWaveDisplayHitEnd
    \/ GetWaveDisplayCopy
    \/ GetWaveDisplayFill(TRUE)

SpecAppend == Init /\ [][NextAppend]_vars

\* C32: a successful Append of len samples leaves Sequence followed by buffer
\* equal to the old Sequence, the old buffer and the len new samples in that
\* order (so the total grows by exactly len), and every block it hands to the
\* Sequence has the ideal append length of that moment, taken from a buffer
\* that held at least that many samples
C32_AppendKeepsSamples ==
    [][\A len \in AppendLens :
          WaveClipAppend(len, 0)
          => LET n == numSamples
                 b == mAppendBufferLen
                 r == AppendSamples(Ids(1, n), Ids(n + 1, n + b),
                                    Ids(n + b + 1, n + b + len), 0, <<>>)
             IN  /\ r.ok
                 /\ numSamples' = Len(r.seq)
                 /\ mAppendBufferLen' = Len(r.buf)
                 /\ numSamples' + mAppendBufferLen' = n + b + len
                 /\ r.seq \o r.buf = Ids(1, n + b + len)
                 /\ \A i \in 1 .. Len(r.moves) :
                       /\ r.moves[i].held >= r.moves[i].size
                       /\ \E k \in 0 .. n + b + len :
                             r.moves[i].size = GetIdealAppendLen(k)
                 /\ numSamples' - numSamples
                    = IF Len(r.moves) = 0 THEN 0
                      ELSE IF Len(r.moves) = 1 THEN r.moves[1].size
                      ELSE r.moves[1].size + r.moves[2].size]_vars

\* an Append has completed the last block of the Sequence with part of a full
\* buffer and kept the rest in the buffer
C32_Witness ==
    /\ numSamples = MaxBlockSize
    /\ mAppendBufferLen = MaxBlockSize - 1
    /\ mDirty = MaxDirty
    /\ rt.pc = "idle" /\ rt.mode = "none"

\* C39: the number of buffered samples is between 0 and the maximum block
\* size, the capacity of the append buffer, in every state Append and Flush
\* lead to, and in no Append that can be called next, failing or not, does
\* the buffer hold more than its capacity after a copy
C39_BufferWithinCapacity ==
    /\ 0 <= mAppendBufferLen /\ mAppendBufferLen <= MaxBlockSize
    /\ \A len \in AppendLens, failAt \in 0 .. 1 :
          LET n == numSamples
              b == mAppendBufferLen
              r == AppendSamples(Ids(1, n), Ids(n + 1, n + b),
                                 Ids(n + b + 1, n + b + len), failAt, <<>>)
          IN  /\ Len(r.buf) <= MaxBlockSize
              /\ \A i \in 1 .. Len(r.moves) : r.moves[i].held <= MaxBlockSize

\* Appends have filled the buffer to its capacity behind a committed block
C39_Witness ==
    /\ mAppendBufferLen = MaxBlockSize
    /\ numSamples = MaxBlockSize
    /\ rt.pc = "idle" /\ rt.mode = "none"

\* C33: Flush with samples in the buffer and a Sequence that accepts them
\* adds exactly the buffered samples to the Sequence, empties the buffer,
\* increases dirty and returns true; when the Sequence fails it returns false
\* and the buffer length and dirty are as before; with an empty buffer it
\* returns true and changes nothing
C33_FlushCommitsOrKeeps ==
    [][\A ok \in BOOLEAN :
          Flush(ok)
          => IF mAppendBufferLen > 0 /\ ok
             THEN /\ FlushResult(mAppendBufferLen, ok)
                  /\ numSamples' = numSamples + mAppendBufferLen
                  /\ mAppendBufferLen' = 0
                  /\ mDirty' > mDirty
             ELSE IF mAppendBufferLen > 0
             THEN /\ ~FlushResult(mAppendBufferLen, ok)
                  /\ mAppendBufferLen' = mAppendBufferLen
                  /\ mDirty' = mDirty
             ELSE /\ FlushResult(mAppendBufferLen, ok)
                  /\ UNCHANGED vars]_vars

\* a Flush has committed the sample an Append left in the buffer behind a
\* whole block
C33_Witness ==
    /\ numSamples = MaxBlockSize + 1
    /\ mAppendBufferLen = 0
    /\ mDirty >= 2
    /\ rt.pc = "idle" /\ rt.mode = "none"

(***************************************************************************)
(* The reassigned spectrogram: what the calls of CalculateOneSpectrum that *)
(* Populate makes write into the buffer of a cache GetSpectrogram built.   *)
(* What the three FFTs give for one point, the corrected column and the    *)
(* bin, is any value near the column and any bin index.                    *)
(***************************************************************************)
LookaheadCap == 100

\* lines 995-996: fftLen and half, the number of bins of a column
FftLen(c) == c.windowSize * c.zeroPaddingFactor

Half(c) == FftLen(c) \div 2

\* SpecCache(...): the buffer of a new cache, len columns of half bins, zeroed
ZeroedFreq(c) == [x \in 1 .. c.len |-> [b \in 1 .. Half(c) |-> 0]]

\* lines 796-802: the sample the window of column xx is centred on
SpectrumStart(c, xx, samplesPerPixel) ==
    IF xx < 0 THEN Trunc(c.where[1] * Den + xx * samplesPerPixel, Den)
    ELSE IF xx > c.len
    THEN Trunc(c.where[c.len + 1] * Den + (xx - c.len) * samplesPerPixel, Den)
    ELSE c.where[xx + 1]

\* line 811
OutOfClip(start, samples) == start <= 0 \/ start >= samples

\* a CalculateOneSpectrum that accepts the corrected column upperBoundX too,
\* to compare CalculateOneSpectrum with
CalculateOneSpectrumUpTo(freq, c, xx, samples, samplesPerPixel, lowerBoundX, upperBoundX, correctedX, bin) ==
    IF OutOfClip(SpectrumStart(c, xx, samplesPerPixel), samples)
    THEN IF xx >= 0 /\ xx < c.len
         THEN [result |-> FALSE,
               freq |-> [freq EXCEPT ![xx + 1] = [b \in 1 .. Half(c) |-> 0]],
               writes |-> {Half(c) * xx + b : b \in 0 .. Half(c) - 1},
               added |-> {}]
         ELSE [result |-> FALSE, freq |-> freq, writes |-> {}, added |-> {}]
    ELSE IF /\ bin >= 0 /\ bin < Half(c)
            /\ correctedX >= lowerBoundX /\ correctedX <= upperBoundX
         THEN [result |-> TRUE,
               freq |-> freq,
               writes |-> {Half(c) * correctedX + bin},
               added |-> {<<correctedX, bin>>}]
         ELSE [result |-> FALSE, freq |-> freq, writes |-> {}, added |-> {}]

\* SpecCache::CalculateOneSpectrum with algReassignment, for one point of the
\* FFT: freq is the buffer before the call; writes are the indices of the
\* buffer the call stores to, added the (column, bin) it accumulates into
CalculateOneSpectrum(freq, c, xx, samples, samplesPerPixel, lowerBoundX, upperBoundX, correctedX, bin) ==
    IF OutOfClip(SpectrumStart(c, xx, samplesPerPixel), samples)
    THEN IF xx >= 0 /\ xx < c.len
         THEN [result |-> FALSE,
               freq |-> [freq EXCEPT ![xx + 1] = [b \in 1 .. Half(c) |-> 0]],
               writes |-> {Half(c) * xx + b : b \in 0 .. Half(c) - 1},
               added |-> {}]
         ELSE [result |-> FALSE, freq |-> freq, writes |-> {}, added |-> {}]
    ELSE IF /\ bin >= 0 /\ bin < Half(c)
            /\ correctedX >= lowerBoundX /\ correctedX < upperBoundX
         THEN [result |-> TRUE,
               freq |-> [freq EXCEPT ![correctedX + 1][bin + 1] = @ + 1],
               writes |-> {Half(c) * correctedX + bin},
               added |-> {<<correctedX, bin>>}]
         ELSE [result |-> FALSE, freq |-> freq, writes |-> {}, added |-> {}]

\* lines 1023-1024: how many columns Populate looks at beyond each edge
LookaheadLimit(c, samplesPerPixel) ==
    Min(Floor(samplesPerPixel + 2 * FftLen(c) * Den, 2 * samplesPerPixel),
        LookaheadCap)

\* the call for column xx can return true, so that the lookahead goes on
CanReturnTrue(c, xx, samples, samplesPerPixel, lowerBoundX, upperBoundX) ==
    /\ ~OutOfClip(SpectrumStart(c, xx, samplesPerPixel), samples)
    /\ lowerBoundX < upperBoundX

\* lines 1008-1048: the columns Populate calls CalculateOneSpectrum for in the
\* pass over [lowerBoundX, upperBoundX): the range, and beyond either edge
\* as long as the calls before returned true, at most limit columns
CalledColumns(c, samples, samplesPerPixel, lowerBoundX, upperBoundX) ==
    LET limit == LookaheadLimit(c, samplesPerPixel)
        goesOn(y) == CanReturnTrue(c, y, samples, samplesPerPixel,
                                   lowerBoundX, upperBoundX)
    IN  (lowerBoundX .. upperBoundX - 1)
        \cup {xx \in lowerBoundX - limit .. lowerBoundX - 1 :
                 \A y \in xx + 1 .. lowerBoundX - 1 : goesOn(y)}
        \cup {xx \in upperBoundX .. upperBoundX + limit - 1 :
                 \A y \in upperBoundX .. xx - 1 : goesOn(y)}

\* lines 1108-1111 and 1008-1010: with algReassignment nothing is copied, so
\* the two passes of Populate are over [0, 0) and [0, numPixels)
ReassignmentPasses(c) ==
    {[lowerBoundX |-> 0, upperBoundX |-> 0],
     [lowerBoundX |-> 0, upperBoundX |-> c.len]}

ReassignSettings ==
    [algorithm : {"algReassignment"}, windowType : {0}, windowSize : {2, 4},
     zeroPaddingFactor : {1, 2}, frequencyGain : {0}]

ReassignPixels == 1 .. MaxPixels - 1

ReassignTimes == {0, Den, 2 * Den}

NextReassign ==
    \/ \E len \in 1 .. 2 : AppendAlias(len, FALSE, TRUE)
    \/ \E settings \in ReassignSettings, numPixels \in ReassignPixels,
          t0 \in ReassignTimes : GetSpectrogram(settings, numPixels, t0, Den)

SpecReassign == Init /\ [][NextReassign]_vars

\* the cache is the one GetSpectrogram populated for the clip as it is now
Populated ==
    /\ mSpecCache.len > 0
    /\ mSpecCache.algorithm = "algReassignment"
    /\ mSpecCache.dirty = mDirty

\* what one point of the FFT can give for column xx
CorrectedColumns(xx) == xx - 2 .. xx + 2

Bins(c) == -1 .. Half(c)

\* P(pass, r) for the result r of every call of a pass of Populate
EveryCall(P(_, _)) ==
    LET c == mSpecCache
        samplesPerPixel == SamplesPerPixel(mRate, c.tstep)
    IN  \A pass \in ReassignmentPasses(c) :
        \A xx \in CalledColumns(c, numSamples, samplesPerPixel,
                                 pass.lowerBoundX, pass.upperBoundX) :
        \A correctedX \in CorrectedColumns(xx), bin \in Bins(c) :
            P(pass, CalculateOneSpectrum(ZeroedFreq(c), c, xx, numSamples,
                                         samplesPerPixel, pass.lowerBoundX,
                                         pass.upperBoundX, correctedX, bin))

InBuffer(pass, r) ==
    r.writes \subseteq 0 .. mSpecCache.len * Half(mSpecCache) - 1

AddsInRange(pass, r) ==
    \A a \in r.added :
        /\ pass.lowerBoundX <= a[1] /\ a[1] < pass.upperBoundX
        /\ 0 <= a[2] /\ a[2] < Half(mSpecCache)

WritesInRange(pass, r) ==
    \A w \in r.writes :
        /\ pass.lowerBoundX <= w \div Half(mSpecCache)
        /\ w \div Half(mSpecCache) < pass.upperBoundX

KeepsOtherColumns(pass, r) ==
    \A x \in 0 .. mSpecCache.len - 1 :
        (x < pass.lowerBoundX \/ x >= pass.upperBoundX)
        => r.freq[x + 1] = ZeroedFreq(mSpecCache)[x + 1]

CopyPixels == {1, MaxPixels}

CopyTimes == {0, Den, 2 * Den}

CopySettings ==
    [algorithm : {"algSTFT"}, windowType : {0}, windowSize : {2},
     zeroPaddingFactor : {1}, frequencyGain : {0}]

NextCopy ==
    \/ \E numPixels \in CopyPixels, t0 \in CopyTimes :
          GetWaveDisplayRebuild(numPixels, t0, Den, {})
    \/ GetWaveDisplayCopy
    \/ GetWaveDisplayFill(TRUE)
    \/ \E settings \in CopySettings, numPixels \in CopyPixels, t0 \in CopyTimes :
          GetSpectrogram(settings, numPixels, t0, Den)

SpecCopy == Init /\ [][NextCopy]_vars

\* lines 612-618 and 1153-1155: the memcpy reads old columns
\* [copyBegin + oldX0, copyEnd + oldX0) and writes new columns
\* [copyBegin, copyEnd)
InCopyBounds(copyBegin, copyEnd, oldX0, numPixels, oldLen) ==
    /\ 0 <= copyBegin + oldX0 /\ copyEnd + oldX0 <= oldLen
    /\ 0 <= copyBegin /\ copyEnd <= numPixels

\* C36: whenever GetWaveDisplay or GetSpectrogram copies from the old cache,
\* the columns it reads are columns of the old cache and the columns it
\* writes are columns of the request
C36_CopyStaysInBothCaches ==
    [][/\ (rt.pc = "idle" /\ rt'.pc = "copydrain")
          => InCopyBounds(rt'.copyBegin, rt'.copyEnd, rt'.oldX0, rt'.numPixels,
                          mWaveCache.len)
       /\ \A settings \in CopySettings, numPixels \in CopyPixels, t0 \in CopyTimes :
             (GetSpectrogram(settings, numPixels, t0, Den) /\ sp'.mode = "copy")
             => InCopyBounds(sp'.copyBegin, sp'.copyEnd,
                             findCorrection(mSpecCache.where, mSpecCache.len,
                                            numPixels, t0, mRate,
                                            SamplesPerPixel(mRate, Den)).oldX0,
                             numPixels, mSpecCache.len)]_vars

\* GetWaveDisplay is about to copy into the middle of a view that begins
\* before the old cache (oldX0 < 0), after GetSpectrogram copied the first
\* column of a view from the end of a longer one (oldX0 > 0)
C36_Witness ==
    /\ rt.pc = "copydrain"
    /\ rt.oldX0 < 0
    /\ rt.copyEnd < rt.numPixels
    /\ sp.mode = "copy"
    /\ sp.copyBegin = 0 /\ sp.copyEnd < sp.numPixels
    /\ mSpecCache.start > 0

(***************************************************************************)
(* The pixels the regions cover, before and after an AddInvalidRegion, on  *)
(* a cache a little longer than a view, with sample ranges that reach past *)
(* its end.                                                                *)
(***************************************************************************)
CoverageLen == MaxPixels + 2

CoverageSamples == 0 .. CoverageLen + 1

NextCoverage ==
    \/ \E tstep \in RegionTsteps : GetWaveDisplayRebuild(CoverageLen, 0, tstep, {})
    \/ GetWaveDisplayFill(TRUE)
    \/ \E s \in CoverageSamples : \E e \in CoverageSamples : s <= e /\ AddInvalidRegion(s, e)

SpecCoverage == Init /\ [][NextCoverage]_vars

\* C38: the pixels covered by the regions after AddInvalidRegion are those
\* covered before together with the clipped range [invalStart, invalEnd] of
\* the call (nothing, when the call returns before the region vector): no
\* covered pixel is lost and no other pixel becomes covered
C38_CoverageIsUnion ==
    [][\A s \in CoverageSamples : \A e \in CoverageSamples :
          (s <= e /\ AddInvalidRegion(s, e))
          => LET n == ClippedRange(mWaveCache, s, e)
             IN  ClosedRegionColumns(mWaveCache'.mRegions)
                 = ClosedRegionColumns(mWaveCache.mRegions)
                   \cup (IF Tracked(mWaveCache, s, e) THEN n.start .. n.end
                         ELSE {})]_vars

\* merging has happened and has left a hole: two regions are tracked, one of
\* them wider than the range of a call on a single sample, and a pixel
\* between them is not covered
C38_Witness ==
    /\ Len(mWaveCache.mRegions) = 2
    /\ \E i \in 1 .. 2 : mWaveCache.mRegions[i].end - mWaveCache.mRegions[i].start >= 2
    /\ \E x \in 1 .. mWaveCache.len - 1 :
          /\ x \notin ClosedRegionColumns(mWaveCache.mRegions)
          /\ x - 1 \in ClosedRegionColumns(mWaveCache.mRegions)
          /\ x + 1 \in ClosedRegionColumns(mWaveCache.mRegions)

=============================================================================
